---- MODULE Spec2Model ----
(***************************************************************************)
(* Model of the Temporal task-execution engine of moosestack:              *)
(*   apps/framework-cli/src/framework/python/wrappers/scripts/             *)
(*   python_worker_wrapper/activity.py                                     *)
(*                                                                         *)
(* One invocation of _execute_task is modelled as the main asyncio task.   *)
(* Code between two awaits runs atomically with respect to the other       *)
(* tasks of the event loop (the heartbeat task, the task that delivers a   *)
(* cancellation), but not with respect to the worker thread of the         *)
(* ThreadPoolExecutor, which advances at any time.  pc values that start   *)
(* with "await_" are the suspension points of the main task.               *)
(*                                                                         *)
(* activity.heartbeat is taken not to raise (the orchestrator is a         *)
(* correct collaborator).  A handler is user code: it may write to the     *)
(* shared state, return, raise an Exception, or raise a BaseException      *)
(* that is not an Exception; an async handler may suspend.                 *)
(***************************************************************************)
EXTENDS Integers, Sequences, FiniteSets, TLC

\* ---------------------------------------------------------------- bounds
MaxWrites == 1       \* writes a handler makes to the shared state
MaxSuspends == 1     \* suspensions of an async handler
MaxHeartbeats == 2   \* heartbeat calls after which heartbeat_loop stops ticking
MaxCancels == 2      \* cancellation requests the orchestrator delivers
MaxRunTime == 6      \* time units the run handler may take
MaxAfterTime == 6    \* time units followed after the run handler settled
MaxSteps == 1        \* prints and writes a handler makes, two invocations
MaxInstalls == 3     \* module loads, reloads and wrapper installations in a process
MaxPrints == 2       \* print calls followed in a process
MaxRuns == 3         \* calls of StructuredLogContext.run, nested or in sequence
MaxAdds == 3         \* records added to a MooseBatchedModelWriter
MaxFlushes == 2      \* calls of MooseBatchedModelWriter.flush

\* ------------------------------------------------------------ vocabulary
None == "None"
NoMsg == [text |-> "", names |-> {}]
NoCtx == [state |-> 0, input |-> None]
NoPayload == [error |-> "", details |-> NoMsg, traceback |-> ""]
NoOutcome == [kind |-> "none", task |-> None, data |-> None, payload |-> NoPayload]
NoIdentity == << >>
NoTask == [name |-> None, model_type |-> None, run |-> None, on_cancel |-> None]

Values == {None, "v"}                       \* what a run handler returns
ExcKinds == {"Exception", "BaseException"}  \* what a handler raises
Styles == {"async", "sync"}

\* the registry behind get_workflow / workflow.get_task
KnownWorkflow == "wf"
KnownTask == "task"
ModelName == "Model"

\* input_data of ScriptExecutionInput: None or a dict.  self is the dict
\* taken as a payload, data the value under its "data" key when present.
InputDatas ==
    {[kind |-> "none", hasData |-> FALSE, data |-> None, self |-> None]}
    \cup {[kind |-> "dict", hasData |-> FALSE, data |-> None, self |-> s] :
            s \in {"empty", "good", "bad"}}
    \cup {[kind |-> "dict", hasData |-> TRUE, data |-> d, self |-> "wrapper"] :
            d \in {None, "empty", "good", "bad", "instance"}}

ExecutionInputs ==
    [workflow_name : {KnownWorkflow, "nowf"},
     task_name : {KnownTask, "notask"},
     input_data : InputDatas]

TaskDefinitions ==
    [name : {KnownTask},
     model_type : {None, ModelName},
     run : Styles,
     on_cancel : Styles \cup {None}]

VARIABLES
    execution_input,    \* the ScriptExecutionInput of the invocation
    taskDef,            \* the task registered as KnownWorkflow/KnownTask
    pc,                 \* position of the main task in _execute_task
    executor,           \* "none" | "created" | "shutdown"
    hb,                 \* heartbeat task: none|pending|sleeping|finished|cancelled
    hbCancelReq,        \* heartbeat_task.cancel() has been requested
    heartbeats,         \* the activity.heartbeat calls made, in order
    heap,               \* dict objects: id -> sequence of marks written
    shared_task_state,  \* id of the dict created at line 225 (0: not yet)
    input_data,         \* payload returned by _process_input_data
    validated_input,    \* value returned by _validate_input_data
    task,               \* the resolved task definition, or None
    runCtx,             \* TaskContext given to run
    cancelCtx,          \* TaskContext given to on_cancel
    runH,               \* run handler: none|active|suspended|returned|raised|cancelled
    fut,                \* future of run_in_executor: none|pending|result|exception|cancelled
    futValue,           \* result or exception kind carried by fut
    onc,                \* on_cancel handler: none|active|suspended|returned|raised|cancelled
    pendingCancel,      \* a CancelledError is thrown at the next resumption
    exc,                \* exception in flight in the main task
    result,             \* value returned by _execute_task_function
    pending,            \* outcome held while the finally block runs
    outcome,            \* outcome delivered to the caller
    errLog,             \* log.error records, in order
    task_context,       \* _task_context in the main task's context
    thread_context,     \* _task_context in the context copied for the thread
    hist,               \* history: counters and the places cancellation hit
    clock,              \* timers, in time units; only the timed actions move them
    proc,               \* the worker process seen with two invocations in it
    printing,           \* builtins.print, the wrappers installed over it, the streams
    logging,            \* _logging_context and the calls of StructuredLogContext
    streaming,          \* the streaming runner wrapper: main thread and parent monitor
    worker,             \* the task worker's entry point: main thread and parent monitor
    writer              \* a MooseBatchedModelWriter and its client

vars == <<execution_input, taskDef, pc, executor, hb, hbCancelReq, heartbeats,
          heap, shared_task_state, input_data, validated_input, task, runCtx,
          cancelCtx, runH, fut, futValue, onc, pendingCancel, exc, result,
          pending, outcome, errLog, task_context, thread_context, hist,
          clock, proc, printing, logging, streaming, worker, writer>>

\* the variables of one activity invocation and of the worker process around it
activityVars ==
    <<execution_input, taskDef, pc, executor, hb, hbCancelReq, heartbeats,
      heap, shared_task_state, input_data, validated_input, task, runCtx,
      cancelCtx, runH, fut, futValue, onc, pendingCancel, exc, result,
      pending, outcome, errLog, task_context, thread_context, hist,
      clock, proc>>

\* the variables of the programs around the activity
libVars == <<printing, logging, streaming, worker, writer>>

NoExc == [kind |-> "none", msg |-> NoMsg]

Hist0 ==
    [runCalls |-> 0, onCancelCalls |-> 0, runWrites |-> 0, cancelWrites |-> 0,
     runSuspends |-> 0, cancelSuspends |-> 0, cancels |-> 0, cancelAt |-> {},
     failedAt |-> "none", interrupted |-> FALSE, delivered |-> 0,
     absorbed |-> FALSE, caught |-> 0, onCancelExc |-> "none"]

\* ran: time the run handler has been executing; settled: time since it
\* settled; sleep: time the heartbeat loop has slept; atDeadline: number of
\* heartbeat calls made when one interval had passed since settlement
Clock0 == [ran |-> 0, settled |-> 0, sleep |-> 0, atDeadline |-> 0]

\* the invocations the worker process runs side by side
Invs == {1, 2}

\* task names invocation i may be called with: the second invocation runs
\* the same task as the first or another one
PairTaskNames(i) == IF i = 1 THEN {"taskA"} ELSE {"taskA", "taskB"}

\* on_cancel of a task of the pair: absent or defined (both styles are
\* called the same way, lines 184-187)
PairOnCancel == {None, "async"}

\* an invocation the orchestrator has not started yet.  ctx, thrCtx: ids of
\* the contextvars.Context of the asyncio task and of the copy handed to the
\* thread; state, executor: ids of the dict of line 225 and of the
\* ThreadPoolExecutor of line 221; runState, cancelState: ids of the dict
\* inside the TaskContext given to run and to on_cancel (0: none)
InvIdle ==
    [pc |-> "idle", name |-> None, run |-> None, on_cancel |-> None,
     ctx |-> 0, thrCtx |-> 0, state |-> 0, runState |-> 0, cancelState |-> 0,
     executor |-> 0, thread |-> "none", cancelled |-> FALSE,
     steps |-> 0, csteps |-> 0]

\* contexts: value of _task_context in every Context object, the first being
\* the worker's own, where the variable has its default; dicts: every dict
\* object with the marks written to it; executors: every ThreadPoolExecutor;
\* log: the structured records written to stderr
Proc0 ==
    [contexts |-> <<NoIdentity>>, dicts |-> << >>, executors |-> << >>,
     log |-> << >>, inv |-> [i \in Invs |-> InvIdle]]

\* the arguments of one print call
PrintArgs == {<< >>, <<"a">>, <<"a", "int1">>}

PrintCalls ==
    [args : PrintArgs, sep : {" ", ","}, end : {"\n", ""},
     file : {None, "stdout", "stderr", "custom"}, flush : BOOLEAN]

NoCall ==
    [made |-> FALSE,
     call |-> [args |-> << >>, sep |-> " ", end |-> "\n", file |-> None,
               flush |-> FALSE],
     identities |-> {}, records |-> << >>, forwarded |-> << >>,
     raised |-> FALSE]

\* a fresh interpreter: builtins.print is the builtin (0), no module loaded
Printing0 ==
    [modules |-> << >>, fns |-> << >>, print |-> 0, vars |-> << >>,
     unflushed |-> [stdout |-> 0, stderr |-> 0, custom |-> 0],
     installs |-> 0, calls |-> 0, last |-> NoCall]

\* the dictionaries passed to StructuredLogContext.run
LogContexts ==
    {[kind |-> "dict", function_name |-> "function1"],
     [kind |-> "dict", function_name |-> "function2"]}

\* None as the value of _logging_context
NoLogContext == [kind |-> "None", function_name |-> ""]

LogLevels == {"info", "error"}

LogMessages == {"message1", "message2"}

NoLogCall ==
    [made |-> FALSE, level |-> "info", message |-> "message1", depth |-> 0,
     innermost |-> NoLogContext, emitted |-> << >>]

\* _logging_context has its default; no run is active, nothing was logged
Logging0 ==
    [context |-> NoLogContext, stack |-> << >>, raising |-> FALSE, runs |-> 0,
     last |-> NoLogCall]

\* range(6) at line 42 of streaming_runner_wrapper.py
GracePolls == 6

\* main has started the monitor thread and is about to import the module
Streaming0 ==
    [main |-> "running", ended |-> "no", mon |-> "test", parent |-> "same",
     shutdown_flag |-> FALSE, process_done |-> FALSE, polls |-> 0,
     sigterms |-> 0, requested |-> FALSE, forced |-> FALSE, alive |-> TRUE]

\* the worker process has been spawned and main is entered
Worker0 ==
    [main |-> "starting", ended |-> "no", mon |-> "unstarted",
     parent |-> "same", orphaned |-> FALSE, shutdown_event |-> FALSE,
     requested |-> FALSE, logged |-> "none", forced |-> FALSE, alive |-> TRUE]

\* the model names records are added for
ModelNames == {"A", "B"}

\* lines 5-7: an empty batch; nothing added, nothing written
Writer0 ==
    [keys |-> << >>, records |-> [n \in ModelNames |-> << >>],
     writes |-> << >>, history |-> [n \in ModelNames |-> << >>],
     adds |-> 0, flushes |-> 0, failures |-> 0, last |-> "init"]

Init ==
    /\ execution_input \in ExecutionInputs
    /\ taskDef \in TaskDefinitions
    /\ pc = "start"
    /\ executor = "none"
    /\ hb = "none"
    /\ hbCancelReq = FALSE
    /\ heartbeats = << >>
    /\ heap = << >>
    /\ shared_task_state = 0
    /\ input_data = None
    /\ validated_input = None
    /\ task = NoTask
    /\ runCtx = NoCtx
    /\ cancelCtx = NoCtx
    /\ runH = "none"
    /\ fut = "none"
    /\ futValue = None
    /\ onc = "none"
    /\ pendingCancel = FALSE
    /\ exc = NoExc
    /\ result = None
    /\ pending = NoOutcome
    /\ outcome = NoOutcome
    /\ errLog = << >>
    /\ task_context = NoIdentity
    /\ thread_context = NoIdentity
    /\ hist = Hist0
    /\ clock = Clock0
    /\ proc = Proc0
    /\ printing = Printing0
    /\ logging = Logging0
    /\ streaming = Streaming0
    /\ worker = Worker0
    /\ writer = Writer0

\* ------------------------------------------------------- pure functions

\* bool(input_data): None and the empty dict are falsy
Truthy(d) == d.kind = "dict" /\ d.self # "empty"

\* _process_input_data (lines 90-94)
process_input_data(ei) ==
    IF ~Truthy(ei.input_data) THEN None
    ELSE IF ei.input_data.hasData THEN ei.input_data.data
    ELSE ei.input_data.self

\* _get_workflow_and_task (lines 97-113) over the registry holding td
get_workflow_and_task(ei, td) ==
    IF ei.workflow_name # KnownWorkflow
    THEN [ok |-> FALSE, task |-> NoTask,
          msg |-> [text |-> "Workflow not found",
                   names |-> {ei.workflow_name}]]
    ELSE IF ei.task_name # KnownTask
    THEN [ok |-> FALSE, task |-> NoTask,
          msg |-> [text |-> "Task not found in workflow",
                   names |-> {ei.task_name, ei.workflow_name}]]
    ELSE [ok |-> TRUE, task |-> td, msg |-> NoMsg]

\* mutant: a task without input schema is handed the payload as sent
validate_input_data_PassThrough(payload, t) ==
    IF t.model_type = None
    THEN [ok |-> TRUE, value |-> payload, msg |-> NoMsg, logged |-> FALSE]
    ELSE IF payload = None
    THEN [ok |-> FALSE, value |-> None, logged |-> FALSE,
          msg |-> [text |-> "requires input but received None",
                   names |-> {t.name, t.model_type}]]
    ELSE IF payload = "instance"
    THEN [ok |-> TRUE, value |-> "instance", msg |-> NoMsg, logged |-> FALSE]
    ELSE IF payload = "good"
    THEN [ok |-> TRUE, value |-> "validated", msg |-> NoMsg, logged |-> FALSE]
    ELSE [ok |-> FALSE, value |-> None, logged |-> TRUE,
          msg |-> [text |-> "Input data does not match task's input type",
                   names |-> {t.model_type}]]

\* mutant: a payload that fails coercion is logged and passed on
validate_input_data_Lenient(payload, t) ==
    IF t.model_type = None
    THEN [ok |-> TRUE, value |-> None, msg |-> NoMsg, logged |-> FALSE]
    ELSE IF payload \in {"instance", "good"}
    THEN [ok |-> TRUE, value |-> payload, msg |-> NoMsg, logged |-> FALSE]
    ELSE [ok |-> TRUE, value |-> payload, msg |-> NoMsg, logged |-> TRUE]

\* _validate_input_data (lines 116-143)
validate_input_data(payload, t) ==
    IF t.model_type = None
    THEN [ok |-> TRUE, value |-> None, msg |-> NoMsg, logged |-> FALSE]
    ELSE IF payload = None
    THEN [ok |-> FALSE, value |-> None, logged |-> FALSE,
          msg |-> [text |-> "requires input but received None",
                   names |-> {t.name, t.model_type}]]
    ELSE IF payload = "instance"
    THEN [ok |-> TRUE, value |-> "instance", msg |-> NoMsg, logged |-> FALSE]
    ELSE IF payload = "good"
    THEN [ok |-> TRUE, value |-> "validated", msg |-> NoMsg, logged |-> FALSE]
    ELSE [ok |-> FALSE, value |-> None, logged |-> TRUE,
          msg |-> [text |-> "Input data does not match task's input type",
                   names |-> {t.model_type}]]

\* the error_data of lines 269-273
error_data(e) ==
    [error |-> "Task execution failed", details |-> e.msg,
     traceback |-> "traceback"]

HandlerMsg == [text |-> "raised by handler", names |-> {}]
Cancelled == [kind |-> "Cancelled", msg |-> NoMsg]

AwaitPcs == {"await_run", "await_future", "await_oncancel", "await_hb"}

\* the event loop is free for another task while the main task is
\* suspended at an await, and once it has finished
IdleLoop == pc \in AwaitPcs \cup {"done"}

\* ------------------------------------------- main task: _execute_task

\* mutant: the heartbeat loop makes its first call when it is created
CreateResources_Eager ==
    /\ pc = "start"
    /\ executor' = "created"
    /\ hb' = "sleeping"
    /\ heartbeats' = Append(heartbeats, "progress")
    /\ heap' = Append(heap, << >>)
    /\ shared_task_state' = Len(heap) + 1
    /\ pc' = "process"
    /\ UNCHANGED <<libVars, proc, clock, execution_input, taskDef, hbCancelReq,
                   input_data, validated_input, task, runCtx, cancelCtx, runH, fut,
                   futValue, onc, pendingCancel, exc, result, pending, outcome,
                   errLog, task_context, thread_context, hist>>

\* lines 221-225: executor, heartbeat task and shared state are created
CreateResources ==
    /\ pc = "start"
    /\ executor' = "created"
    /\ hb' = "pending"
    /\ heap' = Append(heap, << >>)
    /\ shared_task_state' = Len(heap) + 1
    /\ pc' = "process"
    /\ UNCHANGED <<libVars, proc, clock, execution_input, taskDef, hbCancelReq,
                   heartbeats, input_data, validated_input, task, runCtx, cancelCtx,
                   runH, fut, futValue, onc, pendingCancel, exc, result, pending,
                   outcome, errLog, task_context, thread_context, hist>>

\* lines 228-232
ProcessInput ==
    /\ pc = "process"
    /\ input_data' = process_input_data(execution_input)
    /\ pc' = "resolve"
    /\ UNCHANGED <<libVars, proc, clock, execution_input, taskDef, executor, hb,
                   hbCancelReq, heartbeats, heap, shared_task_state, validated_input,
                   task, runCtx, cancelCtx, runH, fut, futValue, onc, pendingCancel,
                   exc, result, pending, outcome, errLog, task_context,
                   thread_context, hist>>

\* lines 235-238
GetWorkflowAndTask ==
    /\ pc = "resolve"
    /\ LET r == get_workflow_and_task(execution_input, taskDef) IN
        IF r.ok
        THEN /\ task' = r.task
             /\ pc' = "validate"
             /\ UNCHANGED <<exc, hist>>
        ELSE /\ exc' = [kind |-> "Exception", msg |-> r.msg]
             /\ hist' = [hist EXCEPT !.failedAt = "resolve"]
             /\ pc' = "except"
             /\ UNCHANGED task
    /\ UNCHANGED <<libVars, proc, clock, execution_input, taskDef, executor, hb,
                   hbCancelReq, heartbeats, heap, shared_task_state, input_data,
                   validated_input, runCtx, cancelCtx, runH, fut, futValue, onc,
                   pendingCancel, result, pending, outcome, errLog, task_context,
                   thread_context>>

\* line 241
ValidateInput ==
    /\ pc = "validate"
    /\ LET r == validate_input_data(input_data, task) IN
        /\ errLog' = IF r.logged THEN Append(errLog, "validate") ELSE errLog
        /\ IF r.ok
           THEN /\ validated_input' = r.value
                /\ pc' = "heartbeat0"
                /\ UNCHANGED <<exc, hist>>
           ELSE /\ exc' = [kind |-> "Exception", msg |-> r.msg]
                /\ hist' = [hist EXCEPT !.failedAt = "validate"]
                /\ pc' = "except"
                /\ UNCHANGED validated_input
    /\ UNCHANGED <<libVars, proc, clock, execution_input, taskDef, executor, hb,
                   hbCancelReq, heartbeats, heap, shared_task_state, input_data,
                   task, runCtx, cancelCtx, runH, fut, futValue, onc, pendingCancel,
                   result, pending, outcome, task_context, thread_context>>

\* line 244
InitialHeartbeat_Skipped ==
    /\ pc = "heartbeat0"
    /\ pc' = "dispatch"
    /\ UNCHANGED <<libVars, proc, clock, execution_input, taskDef, executor, hb,
                   hbCancelReq, heartbeats, heap, shared_task_state, input_data,
                   validated_input, task, runCtx, cancelCtx, runH, fut, futValue,
                   onc, pendingCancel, exc, result, pending, outcome, errLog,
                   task_context, thread_context, hist>>

InitialHeartbeat ==
    /\ pc = "heartbeat0"
    /\ heartbeats' = Append(heartbeats, "starting")
    /\ pc' = "dispatch"
    /\ UNCHANGED <<libVars, proc, clock, execution_input, taskDef, executor, hb,
                   hbCancelReq, heap, shared_task_state, input_data, validated_input,
                   task, runCtx, cancelCtx, runH, fut, futValue, onc, pendingCancel,
                   exc, result, pending, outcome, errLog, task_context,
                   thread_context, hist>>

\* lines 248-255 and 157-171: _execute_task_function up to its first await
Dispatch ==
    /\ pc = "dispatch"
    /\ runCtx' = [state |-> shared_task_state, input |-> validated_input]
    /\ task_context' = <<execution_input.workflow_name,
                         execution_input.task_name>>
    /\ hist' = [hist EXCEPT !.runCalls = @ + 1]
    /\ runH' = "active"
    /\ IF task.run = "async"
       THEN /\ pc' = "run_async"
            /\ UNCHANGED <<fut, thread_context>>
       ELSE /\ fut' = "pending"
            /\ thread_context' = task_context'
            /\ pc' = "await_future"
    /\ UNCHANGED <<libVars, proc, clock, execution_input, taskDef, executor, hb,
                   hbCancelReq, heartbeats, heap, shared_task_state, input_data,
                   validated_input, task, cancelCtx, futValue, onc, pendingCancel,
                   exc, result, pending, outcome, errLog>>

\* --------------------------------- run handler awaited on the event loop

\* a step of the async run handler that writes to ctx.state
RunWrite ==
    /\ pc = "run_async"
    /\ hist.runWrites < MaxWrites
    /\ heap' = [heap EXCEPT ![runCtx.state] = Append(@, "run")]
    /\ hist' = [hist EXCEPT !.runWrites = @ + 1]
    /\ UNCHANGED <<libVars, proc, clock, execution_input, taskDef, pc, executor,
                   hb, hbCancelReq, heartbeats, shared_task_state, input_data,
                   validated_input, task, runCtx, cancelCtx, runH, fut, futValue,
                   onc, pendingCancel, exc, result, pending, outcome, errLog,
                   task_context, thread_context>>

\* the async run handler awaits something of its own: the main task yields
RunSuspend ==
    /\ pc = "run_async"
    /\ hist.runSuspends < MaxSuspends
    /\ runH' = "suspended"
    /\ hist' = [hist EXCEPT !.runSuspends = @ + 1]
    /\ pc' = "await_run"
    /\ UNCHANGED <<libVars, proc, clock, execution_input, taskDef, executor, hb,
                   hbCancelReq, heartbeats, heap, shared_task_state, input_data,
                   validated_input, task, runCtx, cancelCtx, fut, futValue, onc,
                   pendingCancel, exc, result, pending, outcome, errLog,
                   task_context, thread_context>>

\* line 165 resumed: the handler continues, or CancelledError is thrown
\* into it at its await and unwinds it
RunResume ==
    /\ pc = "await_run"
    /\ IF pendingCancel
       THEN /\ runH' = "cancelled"
            /\ exc' = Cancelled
            /\ pendingCancel' = FALSE
            /\ hist' = [hist EXCEPT !.interrupted = TRUE]
            /\ pc' = "dispatch_finally"
       ELSE /\ runH' = "active"
            /\ pc' = "run_async"
            /\ UNCHANGED <<exc, pendingCancel, hist>>
    /\ UNCHANGED <<libVars, proc, clock, execution_input, taskDef, executor, hb,
                   hbCancelReq, heartbeats, heap, shared_task_state, input_data,
                   validated_input, task, runCtx, cancelCtx, fut, futValue, onc,
                   result, pending, outcome, errLog, task_context, thread_context>>

\* line 165: the handler returns v
RunReturn(v) ==
    /\ pc = "run_async"
    /\ runH' = "returned"
    /\ result' = v
    /\ pc' = "dispatch_finally"
    /\ UNCHANGED <<libVars, proc, clock, execution_input, taskDef, executor, hb,
                   hbCancelReq, heartbeats, heap, shared_task_state, input_data,
                   validated_input, task, runCtx, cancelCtx, fut, futValue, onc,
                   pendingCancel, exc, pending, outcome, errLog, task_context,
                   thread_context, hist>>

\* line 165: the handler raises
RunRaise(k) ==
    /\ pc = "run_async"
    /\ runH' = "raised"
    /\ exc' = [kind |-> k, msg |-> HandlerMsg]
    /\ pc' = "dispatch_finally"
    /\ UNCHANGED <<libVars, proc, clock, execution_input, taskDef, executor, hb,
                   hbCancelReq, heartbeats, heap, shared_task_state, input_data,
                   validated_input, task, runCtx, cancelCtx, fut, futValue, onc,
                   pendingCancel, result, pending, outcome, errLog, task_context,
                   thread_context, hist>>

\* ------------------------------- run handler in the executor's thread

InThread == fut # "none" /\ runH = "active"

ThreadWrite ==
    /\ InThread
    /\ hist.runWrites < MaxWrites
    /\ heap' = [heap EXCEPT ![runCtx.state] = Append(@, "run")]
    /\ hist' = [hist EXCEPT !.runWrites = @ + 1]
    /\ UNCHANGED <<libVars, proc, clock, execution_input, taskDef, pc, executor,
                   hb, hbCancelReq, heartbeats, shared_task_state, input_data,
                   validated_input, task, runCtx, cancelCtx, runH, fut, futValue,
                   onc, pendingCancel, exc, result, pending, outcome, errLog,
                   task_context, thread_context>>

\* the job ends; its result reaches the future unless that was cancelled
ThreadReturn(v) ==
    /\ InThread
    /\ runH' = "returned"
    /\ IF fut = "pending"
       THEN fut' = "result" /\ futValue' = v
       ELSE UNCHANGED <<fut, futValue>>
    /\ UNCHANGED <<libVars, proc, clock, execution_input, taskDef, pc, executor,
                   hb, hbCancelReq, heartbeats, heap, shared_task_state, input_data,
                   validated_input, task, runCtx, cancelCtx, onc, pendingCancel, exc,
                   result, pending, outcome, errLog, task_context, thread_context,
                   hist>>

ThreadRaise(k) ==
    /\ InThread
    /\ runH' = "raised"
    /\ IF fut = "pending"
       THEN fut' = "exception" /\ futValue' = k
       ELSE UNCHANGED <<fut, futValue>>
    /\ UNCHANGED <<libVars, proc, clock, execution_input, taskDef, pc, executor,
                   hb, hbCancelReq, heartbeats, heap, shared_task_state, input_data,
                   validated_input, task, runCtx, cancelCtx, onc, pendingCancel, exc,
                   result, pending, outcome, errLog, task_context, thread_context,
                   hist>>

\* line 171 resumed: the future is done or the main task was cancelled
FutureResume ==
    /\ pc = "await_future"
    /\ fut # "pending"
    /\ IF pendingCancel
       THEN /\ exc' = Cancelled
            /\ pendingCancel' = FALSE
            /\ hist' = [hist EXCEPT !.interrupted = TRUE]
            /\ UNCHANGED result
       ELSE /\ IF fut = "result"
               THEN result' = futValue /\ UNCHANGED exc
               ELSE exc' = [kind |-> futValue, msg |-> HandlerMsg]
                    /\ UNCHANGED result
            /\ UNCHANGED <<pendingCancel, hist>>
    /\ pc' = "dispatch_finally"
    /\ UNCHANGED <<libVars, proc, clock, execution_input, taskDef, executor, hb,
                   hbCancelReq, heartbeats, heap, shared_task_state, input_data,
                   validated_input, task, runCtx, cancelCtx, runH, fut, futValue,
                   onc, pending, outcome, errLog, task_context, thread_context>>

\* mutant: the marker is cleared after a normal return only
DispatchFinally_OnlyOnSuccess ==
    /\ pc = "dispatch_finally"
    /\ task_context' = IF exc.kind = "none" THEN NoIdentity ELSE task_context
    /\ pc' = "dispatched"
    /\ UNCHANGED <<libVars, proc, clock, execution_input, taskDef, executor, hb,
                   hbCancelReq, heartbeats, heap, shared_task_state,
                   input_data, validated_input, task, runCtx, cancelCtx,
                   runH, fut, futValue, onc, pendingCancel, exc, result,
                   pending, outcome, errLog, thread_context, hist>>

\* lines 172-174: the finally of _execute_task_function
DispatchFinally ==
    /\ pc = "dispatch_finally"
    /\ task_context' = NoIdentity
    /\ pc' = "dispatched"
    /\ UNCHANGED <<libVars, proc, clock, execution_input, taskDef, executor, hb,
                   hbCancelReq, heartbeats, heap, shared_task_state, input_data,
                   validated_input, task, runCtx, cancelCtx, runH, fut, futValue,
                   onc, pendingCancel, exc, result, pending, outcome, errLog,
                   thread_context, hist>>

\* mutant: the result is packaged without the handler's value
ReturnResult_DropsData ==
    /\ pc = "dispatched"
    /\ exc.kind = "none"
    /\ pending' = [kind |-> "result", task |-> execution_input.task_name,
                   data |-> None, payload |-> NoPayload]
    /\ pc' = "cleanup"
    /\ UNCHANGED <<libVars, proc, clock, execution_input, taskDef, executor, hb,
                   hbCancelReq, heartbeats, heap, shared_task_state, input_data,
                   validated_input, task, runCtx, cancelCtx, runH, fut, futValue,
                   onc, pendingCancel, exc, result, outcome, errLog, task_context,
                   thread_context, hist>>

\* line 258
ReturnResult ==
    /\ pc = "dispatched"
    /\ exc.kind = "none"
    /\ pending' = [kind |-> "result", task |-> execution_input.task_name,
                   data |-> result, payload |-> NoPayload]
    /\ pc' = "cleanup"
    /\ UNCHANGED <<libVars, proc, clock, execution_input, taskDef, executor, hb,
                   hbCancelReq, heartbeats, heap, shared_task_state, input_data,
                   validated_input, task, runCtx, cancelCtx, runH, fut, futValue,
                   onc, pendingCancel, exc, result, outcome, errLog, task_context,
                   thread_context, hist>>

\* mutant: an Exception of run is answered by dispatching the handler again
RunFailed_Retries ==
    /\ pc = "dispatched"
    /\ exc.kind \in ExcKinds
    /\ hist' = [hist EXCEPT !.failedAt = "run"]
    /\ IF exc.kind = "Exception"
       THEN pc' = "dispatch" /\ UNCHANGED pending
       ELSE /\ pending' = [kind |-> "raw", task |-> None, data |-> exc.kind,
                           payload |-> NoPayload]
            /\ pc' = "cleanup"
    /\ UNCHANGED <<libVars, proc, clock, execution_input, taskDef, executor, hb,
                   hbCancelReq, heartbeats, heap, shared_task_state, input_data,
                   validated_input, task, runCtx, cancelCtx, runH, fut, futValue,
                   onc, pendingCancel, exc, result, outcome, errLog, task_context,
                   thread_context>>

\* an exception of run that is not CancelledError leaves the inner try:
\* `except Exception` (line 266) takes an Exception, anything else goes
\* straight to the finally
RunFailed ==
    /\ pc = "dispatched"
    /\ exc.kind \in ExcKinds
    /\ hist' = [hist EXCEPT !.failedAt = "run"]
    /\ IF exc.kind = "Exception"
       THEN pc' = "except" /\ UNCHANGED pending
       ELSE /\ pending' = [kind |-> "raw", task |-> None, data |-> exc.kind,
                           payload |-> NoPayload]
            /\ pc' = "cleanup"
    /\ UNCHANGED <<libVars, proc, clock, execution_input, taskDef, executor, hb,
                   hbCancelReq, heartbeats, heap, shared_task_state, input_data,
                   validated_input, task, runCtx, cancelCtx, runH, fut, futValue,
                   onc, pendingCancel, exc, result, outcome, errLog, task_context,
                   thread_context>>

\* ------------------------------------------------ cancellation handling

\* mutant: on_cancel is given a dict of its own
HandleTaskCancellation_FreshState ==
    /\ pc = "dispatched"
    /\ exc.kind = "Cancelled"
    /\ IF task.on_cancel = None
       THEN /\ pc' = "reraise"
            /\ hist' = [hist EXCEPT !.caught = @ + 1]
            /\ UNCHANGED <<cancelCtx, onc, heap>>
       ELSE /\ heap' = Append(heap, << >>)
            /\ cancelCtx' = [state |-> Len(heap) + 1,
                             input |-> validated_input]
            /\ onc' = "active"
            /\ hist' = [hist EXCEPT !.onCancelCalls = @ + 1,
                                    !.caught = @ + 1]
            /\ pc' = IF task.on_cancel = "async" THEN "oncancel_async"
                     ELSE "oncancel_sync"
    /\ UNCHANGED <<libVars, proc, clock, execution_input, taskDef, executor, hb,
                   hbCancelReq, heartbeats, shared_task_state, input_data,
                   validated_input, task, runCtx, runH, fut, futValue, pendingCancel,
                   exc, result, pending, outcome, errLog, task_context,
                   thread_context>>

\* mutant: the inner handler is entered for every exception of run
HandleTaskCancellation_AnyExc ==
    /\ pc = "dispatched"
    /\ exc.kind # "none"
    /\ IF task.on_cancel = None
       THEN /\ pc' = "reraise"
            /\ hist' = [hist EXCEPT !.caught = @ + 1]
            /\ UNCHANGED <<cancelCtx, onc>>
       ELSE /\ cancelCtx' = [state |-> shared_task_state,
                             input |-> validated_input]
            /\ onc' = "active"
            /\ hist' = [hist EXCEPT !.onCancelCalls = @ + 1,
                                    !.caught = @ + 1]
            /\ pc' = IF task.on_cancel = "async" THEN "oncancel_async"
                     ELSE "oncancel_sync"
    /\ UNCHANGED <<libVars, proc, clock, execution_input, taskDef, executor, hb,
                   hbCancelReq, heartbeats, heap, shared_task_state, input_data,
                   validated_input, task, runCtx, runH, fut, futValue, pendingCancel,
                   exc, result, pending, outcome, errLog, task_context,
                   thread_context>>

\* lines 259-262 and 177-187: _handle_task_cancellation up to the handler
HandleTaskCancellation ==
    /\ pc = "dispatched"
    /\ exc.kind = "Cancelled"
    /\ IF task.on_cancel = None
       THEN /\ pc' = "reraise"
            /\ hist' = [hist EXCEPT !.caught = @ + 1]
            /\ UNCHANGED <<cancelCtx, onc>>
       ELSE /\ cancelCtx' = [state |-> shared_task_state,
                             input |-> validated_input]
            /\ onc' = "active"
            /\ hist' = [hist EXCEPT !.onCancelCalls = @ + 1,
                                    !.caught = @ + 1]
            /\ pc' = IF task.on_cancel = "async" THEN "oncancel_async"
                     ELSE "oncancel_sync"
    /\ UNCHANGED <<libVars, proc, clock, execution_input, taskDef, executor, hb,
                   hbCancelReq, heartbeats, heap, shared_task_state, input_data,
                   validated_input, task, runCtx, runH, fut, futValue, pendingCancel,
                   exc, result, pending, outcome, errLog, task_context,
                   thread_context>>

InOnCancel == pc \in {"oncancel_async", "oncancel_sync"}

OnCancelWrite ==
    /\ InOnCancel
    /\ hist.cancelWrites < MaxWrites
    /\ heap' = [heap EXCEPT ![cancelCtx.state] = Append(@, "cancelled")]
    /\ hist' = [hist EXCEPT !.cancelWrites = @ + 1]
    /\ UNCHANGED <<libVars, proc, clock, execution_input, taskDef, pc, executor,
                   hb, hbCancelReq, heartbeats, shared_task_state, input_data,
                   validated_input, task, runCtx, cancelCtx, runH, fut, futValue,
                   onc, pendingCancel, exc, result, pending, outcome, errLog,
                   task_context, thread_context>>

\* line 185: the async on_cancel awaits something of its own
OnCancelSuspend ==
    /\ pc = "oncancel_async"
    /\ hist.cancelSuspends < MaxSuspends
    /\ onc' = "suspended"
    /\ hist' = [hist EXCEPT !.cancelSuspends = @ + 1]
    /\ pc' = "await_oncancel"
    /\ UNCHANGED <<libVars, proc, clock, execution_input, taskDef, executor, hb,
                   hbCancelReq, heartbeats, heap, shared_task_state, input_data,
                   validated_input, task, runCtx, cancelCtx, runH, fut, futValue,
                   pendingCancel, exc, result, pending, outcome, errLog,
                   task_context, thread_context>>

\* mutant: a cancellation delivered while on_cancel is awaited is dropped
OnCancelResume_IgnoresCancel ==
    /\ pc = "await_oncancel"
    /\ onc' = "active"
    /\ pendingCancel' = FALSE
    /\ pc' = "oncancel_async"
    /\ UNCHANGED <<libVars, proc, clock, execution_input, taskDef, executor,
                   hb, hbCancelReq, heartbeats, heap, shared_task_state,
                   input_data, validated_input, task, runCtx, cancelCtx,
                   runH, fut, futValue, exc, result, pending, outcome,
                   errLog, task_context, thread_context, hist>>

\* line 185 resumed.  A CancelledError thrown into on_cancel is not an
\* Exception: line 189 does not catch it, nor does line 266
OnCancelResume ==
    /\ pc = "await_oncancel"
    /\ IF pendingCancel
       THEN /\ onc' = "cancelled"
            /\ exc' = Cancelled
            /\ pendingCancel' = FALSE
            /\ pending' = [kind |-> "cancelled", task |-> None,
                           data |-> None, payload |-> NoPayload]
            /\ pc' = "cleanup"
       ELSE /\ onc' = "active"
            /\ pc' = "oncancel_async"
            /\ UNCHANGED <<exc, pendingCancel, pending>>
    /\ UNCHANGED <<libVars, proc, clock, execution_input, taskDef, executor, hb,
                   hbCancelReq, heartbeats, heap, shared_task_state, input_data,
                   validated_input, task, runCtx, cancelCtx, runH, fut, futValue,
                   result, outcome, errLog, task_context, thread_context, hist>>

\* lines 185-188
OnCancelReturn ==
    /\ InOnCancel
    /\ onc' = "returned"
    /\ pc' = "reraise"
    /\ UNCHANGED <<libVars, proc, clock, execution_input, taskDef, executor, hb,
                   hbCancelReq, heartbeats, heap, shared_task_state, input_data,
                   validated_input, task, runCtx, cancelCtx, runH, fut, futValue,
                   pendingCancel, exc, result, pending, outcome, errLog,
                   task_context, thread_context, hist>>

\* mutant: no except clause around on_cancel, its Exception reaches line 266
OnCancelRaise_Propagates(k) ==
    /\ InOnCancel
    /\ onc' = "raised"
    /\ hist' = [hist EXCEPT !.onCancelExc = k]
    /\ exc' = [kind |-> k, msg |-> HandlerMsg]
    /\ IF k = "Exception"
       THEN /\ pc' = "except"
            /\ UNCHANGED pending
       ELSE /\ pending' = [kind |-> "raw", task |-> None, data |-> k,
                           payload |-> NoPayload]
            /\ pc' = "cleanup"
    /\ UNCHANGED <<libVars, proc, clock, execution_input, taskDef, executor, hb,
                   hbCancelReq, heartbeats, heap, shared_task_state, input_data,
                   validated_input, task, runCtx, cancelCtx, runH, fut, futValue,
                   pendingCancel, result, outcome, errLog, task_context,
                   thread_context>>

\* lines 189-191: `except Exception` logs and drops; any other
\* BaseException leaves _handle_task_cancellation and _execute_task
OnCancelRaise(k) ==
    /\ InOnCancel
    /\ onc' = "raised"
    /\ hist' = [hist EXCEPT !.onCancelExc = k]
    /\ IF k = "Exception"
       THEN /\ errLog' = Append(errLog, "onCancel")
            /\ pc' = "reraise"
            /\ UNCHANGED <<exc, pending>>
       ELSE /\ exc' = [kind |-> k, msg |-> HandlerMsg]
            /\ pending' = [kind |-> "raw", task |-> None, data |-> k,
                           payload |-> NoPayload]
            /\ pc' = "cleanup"
            /\ UNCHANGED errLog
    /\ UNCHANGED <<libVars, proc, clock, execution_input, taskDef, executor, hb,
                   hbCancelReq, heartbeats, heap, shared_task_state, input_data,
                   validated_input, task, runCtx, cancelCtx, runH, fut, futValue,
                   pendingCancel, result, outcome, task_context, thread_context>>

\* mutant: CancelledError counted as an Exception and wrapped at line 266
Reraise_Wrapped ==
    /\ pc = "reraise"
    /\ pc' = "except"
    /\ UNCHANGED <<libVars, proc, clock, execution_input, taskDef, executor, hb,
                   hbCancelReq, heartbeats, heap, shared_task_state, input_data,
                   validated_input, task, runCtx, cancelCtx, runH, fut, futValue,
                   onc, pendingCancel, exc, result, pending, outcome, errLog,
                   task_context, thread_context, hist>>

\* line 264: the CancelledError is raised again; it is no Exception, so
\* line 266 lets it through to the finally
Reraise ==
    /\ pc = "reraise"
    /\ pending' = [kind |-> "cancelled", task |-> None, data |-> None,
                   payload |-> NoPayload]
    /\ pc' = "cleanup"
    /\ UNCHANGED <<libVars, proc, clock, execution_input, taskDef, executor, hb,
                   hbCancelReq, heartbeats, heap, shared_task_state, input_data,
                   validated_input, task, runCtx, cancelCtx, runH, fut, futValue,
                   onc, pendingCancel, exc, result, outcome, errLog, task_context,
                   thread_context, hist>>

\* mutant: the failure is wrapped without a log record
ExceptHandler_Silent ==
    /\ pc = "except"
    /\ pending' = [kind |-> "failure", task |-> None, data |-> None,
                   payload |-> error_data(exc)]
    /\ pc' = "cleanup"
    /\ UNCHANGED <<libVars, proc, clock, execution_input, taskDef, executor,
                   hb, hbCancelReq, heartbeats, heap, shared_task_state,
                   input_data, validated_input, task, runCtx, cancelCtx,
                   runH, fut, futValue, onc, pendingCancel, exc, result,
                   outcome, errLog, task_context, thread_context, hist>>

\* mutant: the failure is logged and re-raised as it is
ExceptHandler_Raw ==
    /\ pc = "except"
    /\ errLog' = Append(errLog, "failure")
    /\ pending' = [kind |-> "raw", task |-> None, data |-> exc.kind,
                   payload |-> NoPayload]
    /\ pc' = "cleanup"
    /\ UNCHANGED <<libVars, proc, clock, execution_input, taskDef, executor, hb,
                   hbCancelReq, heartbeats, heap, shared_task_state, input_data,
                   validated_input, task, runCtx, cancelCtx, runH, fut, futValue,
                   onc, pendingCancel, exc, result, outcome, task_context,
                   thread_context, hist>>

\* lines 266-277: the failure is logged and wrapped
ExceptHandler ==
    /\ pc = "except"
    /\ errLog' = Append(errLog, "failure")
    /\ pending' = [kind |-> "failure", task |-> None, data |-> None,
                   payload |-> error_data(exc)]
    /\ pc' = "cleanup"
    /\ UNCHANGED <<libVars, proc, clock, execution_input, taskDef, executor, hb,
                   hbCancelReq, heartbeats, heap, shared_task_state, input_data,
                   validated_input, task, runCtx, cancelCtx, runH, fut, futValue,
                   onc, pendingCancel, exc, result, outcome, task_context,
                   thread_context, hist>>

\* ------------------------------------------ teardown: _cleanup_resources

\* mutant: the heartbeat task is awaited without being cancelled
CancelHeartbeat_NoCancel ==
    /\ pc = "cleanup"
    /\ hb # "failed"
    /\ pc' = "await_hb"
    /\ UNCHANGED <<libVars, proc, clock, execution_input, taskDef, executor, hb,
                   hbCancelReq, heartbeats, heap, shared_task_state, input_data,
                   validated_input, task, runCtx, cancelCtx, runH, fut, futValue,
                   onc, pendingCancel, exc, result, pending, outcome, errLog,
                   task_context, thread_context, hist>>

\* line 196: heartbeat_task.cancel(), then line 198 suspends on a task
\* that is not done
CancelHeartbeat ==
    /\ pc = "cleanup"
    /\ hb # "failed"
    /\ hbCancelReq' = (hbCancelReq \/ hb \in {"pending", "sleeping"})
    /\ pc' = "await_hb"
    /\ UNCHANGED <<libVars, proc, clock, execution_input, taskDef, executor, hb,
                   heartbeats, heap, shared_task_state, input_data, validated_input,
                   task, runCtx, cancelCtx, runH, fut, futValue, onc, pendingCancel,
                   exc, result, pending, outcome, errLog, task_context,
                   thread_context, hist>>

\* mutant: no except clause at line 199, the CancelledError of the await
\* replaces whatever the finally block was holding
AwaitHeartbeat_Propagates ==
    /\ pc = "await_hb"
    /\ hb \in {"finished", "cancelled"}
    /\ pendingCancel' = FALSE
    /\ hist' = [hist EXCEPT !.absorbed = @ \/ pendingCancel]
    /\ pending' = IF pendingCancel \/ hb = "cancelled"
                  THEN [kind |-> "cancelled", task |-> None, data |-> None,
                        payload |-> NoPayload]
                  ELSE pending
    /\ pc' = "shutdown"
    /\ UNCHANGED <<libVars, proc, clock, execution_input, taskDef, executor, hb,
                   hbCancelReq, heartbeats, heap, shared_task_state, input_data,
                   validated_input, task, runCtx, cancelCtx, runH, fut, futValue,
                   onc, exc, result, outcome, errLog, task_context, thread_context>>

\* mutant: the heartbeat task is cancelled but not awaited
AwaitHeartbeat_NoWait ==
    /\ pc = "await_hb"
    /\ pendingCancel' = FALSE
    /\ hist' = [hist EXCEPT !.absorbed = @ \/ pendingCancel]
    /\ pc' = "shutdown"
    /\ UNCHANGED <<libVars, proc, clock, execution_input, taskDef, executor, hb,
                   hbCancelReq, heartbeats, heap, shared_task_state, input_data,
                   validated_input, task, runCtx, cancelCtx, runH, fut, futValue,
                   onc, exc, result, pending, outcome, errLog, task_context,
                   thread_context>>

\* lines 197-200: the awaited heartbeat task is done; a CancelledError
\* raised at this await, whatever its origin, is caught and dropped
AwaitHeartbeat ==
    /\ pc = "await_hb"
    /\ hb \in {"finished", "cancelled"}
    /\ pendingCancel' = FALSE
    /\ hist' = [hist EXCEPT !.absorbed = @ \/ pendingCancel]
    /\ pc' = "shutdown"
    /\ UNCHANGED <<libVars, proc, clock, execution_input, taskDef, executor, hb,
                   hbCancelReq, heartbeats, heap, shared_task_state, input_data,
                   validated_input, task, runCtx, cancelCtx, runH, fut, futValue,
                   onc, exc, result, pending, outcome, errLog, task_context,
                   thread_context>>

\* line 201
ExecutorShutdown ==
    /\ pc = "shutdown"
    /\ executor' = "shutdown"
    /\ pc' = "deliver"
    /\ UNCHANGED <<libVars, proc, clock, execution_input, taskDef, hb,
                   hbCancelReq, heartbeats, heap, shared_task_state, input_data,
                   validated_input, task, runCtx, cancelCtx, runH, fut, futValue,
                   onc, pendingCancel, exc, result, pending, outcome, errLog,
                   task_context, thread_context, hist>>

\* the finally block is over: the pending return or exception reaches
\* the caller of _execute_task
Deliver ==
    /\ pc = "deliver"
    /\ outcome' = pending
    /\ hist' = [hist EXCEPT !.delivered = @ + 1]
    /\ pc' = "done"
    /\ UNCHANGED <<libVars, proc, clock, execution_input, taskDef, executor, hb,
                   hbCancelReq, heartbeats, heap, shared_task_state, input_data,
                   validated_input, task, runCtx, cancelCtx, runH, fut, futValue,
                   onc, pendingCancel, exc, result, pending, errLog, task_context,
                   thread_context>>

\* ------------------------------------- heartbeat task: heartbeat_loop

\* first step of the task: lines 79-82
HbStart ==
    /\ IdleLoop
    /\ hb = "pending"
    /\ ~hbCancelReq
    /\ heartbeats' = Append(heartbeats, "progress")
    /\ hb' = "sleeping"
    /\ UNCHANGED <<libVars, proc, clock, execution_input, taskDef, pc, executor,
                   hbCancelReq, heap, shared_task_state, input_data, validated_input,
                   task, runCtx, cancelCtx, runH, fut, futValue, onc, pendingCancel,
                   exc, result, pending, outcome, errLog, task_context,
                   thread_context, hist>>

\* mutant: a task cancelled before its first step runs up to its first await
HbStartCancelled_RunsBody ==
    /\ IdleLoop
    /\ hb = "pending"
    /\ hbCancelReq
    /\ heartbeats' = Append(heartbeats, "progress")
    /\ hb' = "finished"
    /\ UNCHANGED <<libVars, proc, clock, execution_input, taskDef, pc, executor,
                   hbCancelReq, heap, shared_task_state, input_data, validated_input,
                   task, runCtx, cancelCtx, runH, fut, futValue, onc, pendingCancel,
                   exc, result, pending, outcome, errLog, task_context,
                   thread_context, hist>>

\* a task cancelled before its first step never runs its body
HbStartCancelled ==
    /\ IdleLoop
    /\ hb = "pending"
    /\ hbCancelReq
    /\ hb' = "cancelled"
    /\ UNCHANGED <<libVars, proc, clock, execution_input, taskDef, pc, executor,
                   hbCancelReq, heartbeats, heap, shared_task_state, input_data,
                   validated_input, task, runCtx, cancelCtx, runH, fut, futValue,
                   onc, pendingCancel, exc, result, pending, outcome, errLog,
                   task_context, thread_context, hist>>

\* the sleep of line 82 is over: next iteration
HbTick ==
    /\ IdleLoop
    /\ hb = "sleeping"
    /\ ~hbCancelReq
    /\ Len(heartbeats) <= MaxHeartbeats
    /\ heartbeats' = Append(heartbeats, "progress")
    /\ UNCHANGED <<libVars, proc, clock, execution_input, taskDef, pc, executor,
                   hb, hbCancelReq, heap, shared_task_state, input_data,
                   validated_input, task, runCtx, cancelCtx, runH, fut, futValue,
                   onc, pendingCancel, exc, result, pending, outcome, errLog,
                   task_context, thread_context, hist>>

\* mutant: CancelledError at the sleep is caught and the loop goes on
HbCancelled_Continues ==
    /\ IdleLoop
    /\ hb = "sleeping"
    /\ hbCancelReq
    /\ hbCancelReq' = FALSE
    /\ UNCHANGED <<libVars, proc, clock, execution_input, taskDef, pc, executor,
                   hb, heartbeats, heap, shared_task_state, input_data,
                   validated_input, task, runCtx, cancelCtx, runH, fut, futValue,
                   onc, pendingCancel, exc, result, pending, outcome, errLog,
                   task_context, thread_context, hist>>

\* lines 83-85: CancelledError at the sleep is caught, the loop breaks and
\* the task ends normally
HbCancelled ==
    /\ IdleLoop
    /\ hb = "sleeping"
    /\ hbCancelReq
    /\ hb' = "finished"
    /\ UNCHANGED <<libVars, proc, clock, execution_input, taskDef, pc, executor,
                   hbCancelReq, heartbeats, heap, shared_task_state, input_data,
                   validated_input, task, runCtx, cancelCtx, runH, fut, futValue,
                   onc, pendingCancel, exc, result, pending, outcome, errLog,
                   task_context, thread_context, hist>>

\* ------------------------------------------------------- the orchestrator

\* mutant: cancelling the invocation also stops the worker thread
DeliverCancel_StopsThread ==
    /\ pc \in AwaitPcs
    /\ hist.cancels < MaxCancels
    /\ hist' = [hist EXCEPT !.cancels = @ + 1,
                            !.cancelAt = @ \cup {pc}]
    /\ IF pc = "await_hb" /\ hb \in {"pending", "sleeping"}
       THEN /\ hbCancelReq' = TRUE
            /\ UNCHANGED <<pendingCancel, fut, runH>>
       ELSE /\ pendingCancel' = TRUE
            /\ fut' = IF pc = "await_future" /\ fut = "pending"
                      THEN "cancelled" ELSE fut
            /\ runH' = IF pc = "await_future" /\ fut = "pending"
                       THEN "cancelled" ELSE runH
            /\ UNCHANGED hbCancelReq
    /\ UNCHANGED <<libVars, proc, clock, execution_input, taskDef, pc, executor, hb,
                   heartbeats, heap, shared_task_state, input_data,
                   validated_input, task, runCtx, cancelCtx, futValue,
                   onc, exc, result, pending, outcome, errLog,
                   task_context, thread_context>>

\* Task.cancel() on the main task while it is suspended.  The awaited
\* future is cancelled if it still can be, otherwise CancelledError is
\* thrown at the await when the task resumes.  At line 198 the awaited
\* future is the heartbeat task, which takes the request itself.
DeliverCancel ==
    /\ pc \in AwaitPcs
    /\ hist.cancels < MaxCancels
    /\ hist' = [hist EXCEPT !.cancels = @ + 1,
                            !.cancelAt = @ \cup {pc}]
    /\ IF pc = "await_hb" /\ hb \in {"pending", "sleeping"}
       THEN /\ hbCancelReq' = TRUE
            /\ UNCHANGED <<pendingCancel, fut>>
       ELSE /\ pendingCancel' = TRUE
            /\ fut' = IF pc = "await_future" /\ fut = "pending"
                      THEN "cancelled" ELSE fut
            /\ UNCHANGED hbCancelReq
    /\ UNCHANGED <<libVars, proc, clock, execution_input, taskDef, pc, executor,
                   hb, heartbeats, heap, shared_task_state, input_data,
                   validated_input, task, runCtx, cancelCtx, runH, futValue, onc,
                   exc, result, pending, outcome, errLog, task_context,
                   thread_context>>

Next ==
    \/ CreateResources
    \/ ProcessInput
    \/ GetWorkflowAndTask
    \/ ValidateInput
    \/ InitialHeartbeat
    \/ Dispatch
    \/ RunWrite
    \/ RunSuspend
    \/ RunResume
    \/ \E v \in Values : RunReturn(v)
    \/ \E k \in ExcKinds : RunRaise(k)
    \/ ThreadWrite
    \/ \E v \in Values : ThreadReturn(v)
    \/ \E k \in ExcKinds : ThreadRaise(k)
    \/ FutureResume
    \/ DispatchFinally
    \/ ReturnResult
    \/ RunFailed
    \/ HandleTaskCancellation
    \/ OnCancelWrite
    \/ OnCancelSuspend
    \/ OnCancelResume
    \/ OnCancelReturn
    \/ \E k \in ExcKinds : OnCancelRaise(k)
    \/ Reraise
    \/ ExceptHandler
    \/ CancelHeartbeat
    \/ AwaitHeartbeat
    \/ ExecutorShutdown
    \/ Deliver
    \/ HbStart
    \/ HbStartCancelled
    \/ HbTick
    \/ HbCancelled
    \/ DeliverCancel

Spec == Init /\ [][Next]_vars

\* ----------------------------------- activity.heartbeat that can raise

HeartbeatMsg == [text |-> "raised by activity.heartbeat", names |-> {}]

\* line 244 raises: the exception is taken by line 266
InitialHeartbeatFails ==
    /\ pc = "heartbeat0"
    /\ exc' = [kind |-> "Exception", msg |-> HeartbeatMsg]
    /\ hist' = [hist EXCEPT !.failedAt = "heartbeat"]
    /\ pc' = "except"
    /\ UNCHANGED <<libVars, proc, clock, execution_input, taskDef, executor, hb,
                   hbCancelReq, heartbeats, heap, shared_task_state, input_data,
                   validated_input, task, runCtx, cancelCtx, runH, fut, futValue,
                   onc, pendingCancel, result, pending, outcome, errLog,
                   task_context, thread_context>>

\* line 81 raises: heartbeat_loop catches CancelledError only, so the
\* heartbeat task ends with the exception
HeartbeatRaises ==
    /\ IdleLoop
    /\ hb \in {"pending", "sleeping"}
    /\ ~hbCancelReq
    /\ hb' = "failed"
    /\ UNCHANGED <<libVars, proc, clock, execution_input, taskDef, pc, executor,
                   hbCancelReq, heartbeats, heap, shared_task_state, input_data,
                   validated_input, task, runCtx, cancelCtx, runH, fut, futValue,
                   onc, pendingCancel, exc, result, pending, outcome, errLog,
                   task_context, thread_context, hist>>

\* lines 196-201 with a heartbeat task that has ended with an exception:
\* cancel() does nothing, the await raises that exception at once, it is
\* no CancelledError, so line 201 is not reached and the exception
\* replaces what the finally block of _execute_task was holding
CleanupHeartbeatFailed ==
    /\ pc = "cleanup"
    /\ hb = "failed"
    /\ pending' = [kind |-> "raw", task |-> None, data |-> "Exception",
                   payload |-> NoPayload]
    /\ pc' = "deliver"
    /\ UNCHANGED <<libVars, proc, clock, execution_input, taskDef, executor, hb,
                   hbCancelReq, heartbeats, heap, shared_task_state, input_data,
                   validated_input, task, runCtx, cancelCtx, runH, fut, futValue,
                   onc, pendingCancel, exc, result, outcome, errLog, task_context,
                   thread_context, hist>>

NextHB ==
    \/ Next
    \/ InitialHeartbeatFails
    \/ HeartbeatRaises
    \/ CleanupHeartbeatFailed

SpecHB == Init /\ [][NextHB]_vars

\* ------------------------------------------------------------ properties

RunExecuting == runH \in {"active", "suspended"}
OnCancelExecuting == onc \in {"active", "suspended"}
RunMarks(s) == Cardinality({i \in DOMAIN s : s[i] = "run"})

\* pcs at which the cancellation handler has been entered or left
AfterHandle ==
    {"oncancel_async", "oncancel_sync", "await_oncancel", "reraise",
     "cleanup", "await_hb", "shutdown", "deliver", "done"}

\* the state of the invocation's state machine (spec 4, "State machine")
Phase ==
    CASE pc \in {"start", "process", "resolve"} -> "Resolving"
      [] pc = "validate" -> "Validating"
      [] pc \in {"heartbeat0", "dispatch", "run_async", "await_run",
                 "await_future", "dispatch_finally", "dispatched"} -> "Running"
      [] pc \in {"oncancel_async", "oncancel_sync", "await_oncancel",
                 "reraise"} -> "Cancelling"
      [] pc = "except" -> "Failed"
      [] OTHER ->
           CASE pending.kind = "result" -> "Succeeded"
             [] pending.kind = "cancelled" -> "Cancelled"
             [] OTHER -> "Failed"

\* C1: within one invocation run and on_cancel are never executing at the
\* same time, for an async run handler and for a run handler in the worker
\* thread alike.
C1_NeverBothExecuting == ~(RunExecuting /\ OnCancelExecuting)

\* C2: when cancellation interrupts the awaited run call of a task with
\* on_cancel, on_cancel is invoked exactly once, with the state object and
\* the validated input run was given, and every write of run is in it.
C2_OnCancelOnceSameState ==
    /\ hist.onCancelCalls <= 1
    /\ (hist.interrupted /\ task.on_cancel # None /\ pc \in AfterHandle)
         => hist.onCancelCalls = 1
    /\ hist.onCancelCalls = 1 =>
         /\ cancelCtx.state = runCtx.state
         /\ cancelCtx.input = runCtx.input
         /\ RunMarks(heap[cancelCtx.state]) = hist.runWrites

C2_Witness ==
    /\ pc = "done"
    /\ hist.onCancelCalls = 1
    /\ hist.runWrites > 0
    /\ hist.cancelWrites > 0
    /\ runCtx.input = "validated"

\* C3 as stated: an invocation whose awaited run call was interrupted by
\* cancellation always delivers the cancellation, whatever on_cancel does.
C3_Original ==
    (hist.interrupted /\ pc = "done") => outcome.kind = "cancelled"

\* C3 amended: such an invocation never returns a result and never raises
\* the wrapped failure; the cancellation is caught once; it delivers the
\* cancellation unless on_cancel raised a BaseException that is not an
\* Exception, which then reaches the caller instead.
C3_Amended ==
    /\ hist.caught <= 1
    /\ (hist.interrupted /\ pc \in AfterHandle) =>
         /\ hist.caught = 1
         /\ pending.kind \notin {"result", "failure"}
    /\ (hist.interrupted /\ pc = "done") =>
         /\ outcome.kind \in {"cancelled", "raw"}
         /\ outcome.kind = "raw" <=> hist.onCancelExc = "BaseException"

C3_Witness ==
    /\ pc = "done"
    /\ hist.interrupted
    /\ task.on_cancel = None
    /\ outcome.kind = "cancelled"

\* C4 as stated: an exception of any kind raised by on_cancel is logged and
\* discarded and the caller still receives the cancellation.
C4_Original ==
    (onc = "raised" /\ pc = "done") =>
        /\ outcome.kind = "cancelled"
        /\ \E i \in DOMAIN errLog : errLog[i] = "onCancel"

\* C4 amended: an Exception raised by on_cancel is logged and discarded and
\* the caller still receives the cancellation, never a failure payload.
C4_Amended ==
    (onc = "raised" /\ hist.onCancelExc = "Exception") =>
        /\ \E i \in DOMAIN errLog : errLog[i] = "onCancel"
        /\ pc \in {"reraise", "cleanup", "await_hb", "shutdown", "deliver",
                   "done"}
        /\ pc # "reraise" => pending.kind = "cancelled"
        /\ pc = "done" => outcome.kind = "cancelled"

C4_Witness ==
    /\ pc = "done"
    /\ onc = "raised"
    /\ hist.onCancelExc = "Exception"
    /\ outcome.kind = "cancelled"

\* C5: a cancellation delivered after run has completed, while teardown
\* awaits the stopped heartbeat loop, does not invoke on_cancel and still
\* reaches the caller.
C5_CancelInTeardownDelivered ==
    (pc = "done" /\ "await_hb" \in hist.cancelAt /\ ~hist.interrupted
        /\ runH = "returned")
    => (hist.onCancelCalls = 0 /\ outcome.kind = "cancelled")

C7_SchemaFailure ==
    (task.model_type # None /\ input_data \in {None, "empty", "bad"}
        /\ pc # "validate")
    => /\ hist.runCalls = 0
       /\ hist.failedAt = "validate"
       /\ runH = "none"
       /\ pc = "done" =>
            /\ outcome.kind = "failure"
            /\ task.model_type \in outcome.payload.details.names

C7_Witness ==
    /\ pc = "done"
    /\ task.model_type # None
    /\ input_data = "bad"
    /\ outcome.kind = "failure"

\* C8 as stated: when resolution fails neither the heartbeat task nor the
\* executor of the invocation has been created.
C8_Original ==
    (hist.failedAt = "resolve" /\ pc = "except")
    => (hb = "none" /\ executor = "none")

\* C8 amended: when resolution fails the executor and the heartbeat task
\* exist already, but the heartbeat loop has not taken a step, no heartbeat
\* call has been made and no job has been given to the executor.
C8_Amended ==
    (hist.failedAt = "resolve" /\ pc = "except")
    => /\ executor = "created"
       /\ hb = "pending"
       /\ heartbeats = << >>
       /\ fut = "none"
       /\ runH = "none"

C8_Witness ==
    /\ hist.failedAt = "resolve"
    /\ pc = "except"
    /\ execution_input.task_name # KnownTask

\* C9: an invocation that fails in Resolving or Validating never enters
\* Running and never makes a heartbeat call, initial or periodic.
C9_NoHeartbeatOnEarlyFailure ==
    hist.failedAt \in {"resolve", "validate"}
    => /\ heartbeats = << >>
       /\ Phase = "Failed"
       /\ hist.runCalls = 0
       /\ hb \in {"pending", "cancelled"}

C9_Witness ==
    /\ pc = "done"
    /\ hist.failedAt = "validate"
    /\ hb = "cancelled"
    /\ hist.cancels > 0

PhaseOrder ==
    {<<"Resolving", "Validating">>, <<"Resolving", "Failed">>,
     <<"Validating", "Running">>, <<"Validating", "Failed">>,
     <<"Running", "Succeeded">>, <<"Running", "Failed">>,
     <<"Running", "Cancelling">>, <<"Cancelling", "Cancelled">>}

\* C10 as stated: the states are passed in the order Resolving, Validating,
\* Running, then one of Succeeded, Failed, or Cancelling followed by
\* Cancelled; a terminal state is never left and one outcome is delivered.
C10_Original ==
    [][/\ (Phase' # Phase => <<Phase, Phase'>> \in PhaseOrder)
       /\ hist'.delivered <= 1
       /\ (pc' = "done" => hist'.delivered = 1)]_vars

\* C10 amended: as stated, except that Cancelling is followed by Failed
\* instead of Cancelled when on_cancel raises a BaseException that is not
\* an Exception.
C10_Amended ==
    [][/\ (Phase' # Phase =>
             \/ <<Phase, Phase'>> \in PhaseOrder
             \/ /\ <<Phase, Phase'>> = <<"Cancelling", "Failed">>
                /\ hist'.onCancelExc = "BaseException")
       /\ hist'.delivered <= 1
       /\ (pc' = "done" => hist'.delivered = 1)]_vars

C10_Witness ==
    /\ pc = "done"
    /\ Phase = "Cancelled"
    /\ onc = "returned"
    /\ hist.delivered = 1

\* pcs at which _cleanup_resources has asked the heartbeat task to stop
TeardownPcs == {"await_hb", "shutdown", "deliver", "done"}

HbDone == hb \in {"finished", "cancelled", "failed"}

\* C11: on every exit path, when the invocation returns or raises to the
\* caller the heartbeat loop has been stopped and has finished, and no
\* heartbeat call is made afterwards.
C11_HeartbeatStoppedOnExit ==
    [][/\ (pc' = "done" => HbDone')
       /\ (pc = "done" => heartbeats' = heartbeats)]_vars

C11_Witness ==
    /\ pc = "done"
    /\ hb = "finished"
    /\ outcome.kind = "result"
    /\ Len(heartbeats) >= 2

\* C12: on every exit path the executor is shut down before the invocation
\* returns or raises to the caller, also when awaiting the stopped
\* heartbeat loop ends with an error and when the invocation is cancelled
\* during teardown.
C12_ExecutorShutdownOnExit == pc = "done" => executor = "shutdown"

\* C13: teardown starts only after run and, on the cancellation path,
\* on_cancel have finished executing, a run handler in the worker thread
\* included; the heartbeat stays active while on_cancel runs.
C13_TeardownAfterHandlers ==
    /\ pc \in TeardownPcs => (~RunExecuting /\ ~OnCancelExecuting)
    /\ OnCancelExecuting => (hb \in {"pending", "sleeping"} /\ ~hbCancelReq)

\* the heartbeat loop has not been asked to stop and has not ended
HbAlive == hb \in {"pending", "sleeping"} /\ ~hbCancelReq

\* a handler written in blocking style is executing and the engine is
\* waiting for it
BlockingHandlerExecuting ==
    \/ task.run = "sync" /\ runH = "active" /\ pc = "await_future"
    \/ task.on_cancel = "sync" /\ onc = "active"

\* a handler written as a coroutine is suspended at an await of its own
AsyncHandlerSuspended == pc \in {"await_run", "await_oncancel"}

\* the main task itself executes or awaits on_cancel on the event loop
OnCancelOnLoop ==
    pc \in {"oncancel_async", "oncancel_sync", "await_oncancel"}

OnCancelInThread == OnCancelExecuting /\ ~OnCancelOnLoop

\* C14: heartbeat emission is never blocked by handler progress: while a
\* handler (run or on_cancel, blocking or non-blocking) is executing and
\* has not finished, the next emission step of the heartbeat loop can occur.
C14_HeartbeatNeverBlocked ==
    ((BlockingHandlerExecuting \/ AsyncHandlerSuspended)
        /\ HbAlive /\ Len(heartbeats) <= MaxHeartbeats)
    => ENABLED (HbStart \/ HbTick)

\* C15: on_cancel is dispatched by the same rule as run: an async on_cancel
\* is awaited on the scheduler, a blocking on_cancel runs on the worker
\* thread and not on the scheduler; both get a context with the same
\* shared state and the validated input.
C15_OnCancelSameDispatchRule ==
    OnCancelExecuting =>
        /\ task.on_cancel = "async" => OnCancelOnLoop
        /\ task.on_cancel = "sync" => OnCancelInThread
        /\ cancelCtx.state = shared_task_state
        /\ cancelCtx.input = validated_input

\* C17: in every invocation that reaches Running, before the first step of
\* the run handler the heartbeat task exists and at least one heartbeat
\* call has been made to the orchestrator.
C17_HeartbeatBeforeHandler ==
    [][(runH = "none" /\ runH' # "none")
        => (hb # "none" /\ Len(heartbeats) >= 1)]_vars

C17_Witness ==
    /\ runH = "active"
    /\ hist.runCalls = 1
    /\ hb = "pending"
    /\ heartbeats = <<"starting">>

\* the caller received the typed failure, built once from the exception
\* that ended the invocation
WrappedOnce ==
    /\ outcome.kind = "failure"
    /\ DOMAIN outcome.payload = {"error", "details", "traceback"}
    /\ outcome.payload = error_data(exc)
    /\ outcome.payload.details = exc.msg
    /\ hist.delivered = 1

\* C18 as stated: every invocation that ends because of a non-cancellation
\* exception raised by resolution, validation or the run handler gives the
\* caller exactly one typed failure with the fields error, details and
\* traceback; the raw exception never reaches the caller.
C18_Original ==
    (pc = "done" /\ hist.failedAt \in {"resolve", "validate", "run"})
        => WrappedOnce

\* C18 amended: as stated for exceptions of class Exception; an exception of
\* the run handler that is a BaseException but not an Exception reaches the
\* caller as it was raised, and only such an exception does.
C18_Amended ==
    (pc = "done" /\ hist.failedAt \in {"resolve", "validate", "run"}) =>
        /\ exc.kind = "Exception" => WrappedOnce
        /\ exc.kind # "Exception" =>
             /\ hist.failedAt = "run"
             /\ outcome.kind = "raw"
             /\ outcome.data = exc.kind

C18_Witness ==
    /\ pc = "done"
    /\ hist.failedAt = "run"
    /\ exc.kind = "Exception"
    /\ outcome.kind = "failure"
    /\ outcome.payload.details = HandlerMsg

\* C19: in every invocation that ends Failed the engine emits exactly one
\* error-level log record, whichever stage produced the failure: unknown
\* workflow or task, missing input, input that fails coercion, or an error
\* raised by the run handler.
C19_OneErrorLogPerFailure ==
    (/\ pc = "done"
     /\ hist.failedAt \in {"resolve", "validate", "run"}
     /\ exc.kind = "Exception")
        => Len(errLog) = 1

\* --------------------------------------------------------------- fairness

\* steps of the coroutine _execute_task itself; the event loop runs every
\* ready task, so a step that stays possible is taken
EngineStep ==
    \/ CreateResources \/ ProcessInput \/ GetWorkflowAndTask
    \/ ValidateInput \/ InitialHeartbeat \/ Dispatch \/ FutureResume
    \/ DispatchFinally \/ ReturnResult \/ RunFailed
    \/ HandleTaskCancellation \/ Reraise \/ ExceptHandler
    \/ CancelHeartbeat \/ AwaitHeartbeat \/ ExecutorShutdown \/ Deliver

\* steps of the user's handlers, on the loop or in the worker thread; they
\* are assumed to settle
HandlerStep ==
    \/ RunWrite \/ RunSuspend \/ RunResume
    \/ \E v \in Values : RunReturn(v)
    \/ \E k \in ExcKinds : RunRaise(k)
    \/ ThreadWrite
    \/ \E v \in Values : ThreadReturn(v)
    \/ \E k \in ExcKinds : ThreadRaise(k)
    \/ OnCancelWrite \/ OnCancelSuspend \/ OnCancelResume \/ OnCancelReturn
    \/ \E k \in ExcKinds : OnCancelRaise(k)

\* steps of the heartbeat task, scheduled by the same event loop
HeartbeatStep == HbStart \/ HbStartCancelled \/ HbTick \/ HbCancelled

\* the orchestrator's cancellation (DeliverCancel) is under no fairness
SpecLive ==
    /\ Init
    /\ [][Next]_vars
    /\ WF_vars(EngineStep)
    /\ WF_vars(HandlerStep)
    /\ WF_vars(HeartbeatStep)

\* C20: under fairness, with handlers that settle, every invocation
\* eventually reaches a terminal state with its teardown completed: the
\* await of the stopped heartbeat loop finishes and the invocation does not
\* hang in teardown.
C20_EventuallyTornDown ==
    <>(pc = "done" /\ HbDone /\ executor = "shutdown")

C20_Witness ==
    /\ pc = "done"
    /\ executor = "shutdown"
    /\ hb = "finished"
    /\ hbCancelReq
    /\ outcome.kind = "cancelled"

\* ------------------------------------------------------------------ time

\* line 82: await asyncio.sleep(5)
HeartbeatInterval == 5

RunSettled == runH \in {"returned", "raised", "cancelled"}

\* line 82 with its duration: the sleep has lasted one interval, the loop
\* is free, and heartbeat_loop makes its next call
TimedHbTick ==
    /\ IdleLoop
    /\ hb = "sleeping"
    /\ ~hbCancelReq
    /\ clock.sleep = HeartbeatInterval
    /\ heartbeats' = Append(heartbeats, "progress")
    /\ clock' = [clock EXCEPT !.sleep = 0]
    /\ UNCHANGED <<libVars, proc, execution_input, taskDef, pc, executor, hb,
                   hbCancelReq, heap, shared_task_state, input_data, validated_input,
                   task, runCtx, cancelCtx, runH, fut, futValue, onc, pendingCancel,
                   exc, result, pending, outcome, errLog, task_context,
                   thread_context, hist>>

\* a step the event loop takes without waiting: a ready step of
\* _execute_task, a wake-up by cancellation, a ready or cancelled heartbeat
\* task, a sleep that is over
Urgent ==
    \/ ENABLED EngineStep
    \/ pendingCancel
    \/ ENABLED (HbStart \/ HbStartCancelled \/ HbCancelled)
    \/ ENABLED TimedHbTick

\* one time unit passes while the handlers compute or everything waits;
\* the writes of the handlers to the shared state take no time of their
\* own and are not followed here
Tick ==
    /\ ~Urgent
    /\ RunExecuting \/ RunSettled
    /\ RunExecuting => clock.ran < MaxRunTime
    /\ RunSettled => clock.settled < MaxAfterTime
    /\ clock' =
         [ran |-> IF RunExecuting THEN clock.ran + 1 ELSE clock.ran,
          settled |-> IF RunSettled THEN clock.settled + 1
                      ELSE clock.settled,
          sleep |-> IF hb = "sleeping" /\ clock.sleep < HeartbeatInterval
                    THEN clock.sleep + 1 ELSE clock.sleep,
          atDeadline |-> IF RunSettled /\ clock.settled = HeartbeatInterval
                         THEN Len(heartbeats) ELSE clock.atDeadline]
    /\ UNCHANGED <<libVars, proc, execution_input, taskDef, pc, executor, hb,
                   hbCancelReq, heartbeats, heap, shared_task_state, input_data,
                   validated_input, task, runCtx, cancelCtx, runH, fut, futValue,
                   onc, pendingCancel, exc, result, pending, outcome, errLog,
                   task_context, thread_context, hist>>

NextTimed ==
    \/ CreateResources
    \/ ProcessInput
    \/ GetWorkflowAndTask
    \/ ValidateInput
    \/ InitialHeartbeat
    \/ Dispatch
    \/ RunSuspend
    \/ RunResume
    \/ \E v \in Values : RunReturn(v)
    \/ \E k \in ExcKinds : RunRaise(k)
    \/ \E v \in Values : ThreadReturn(v)
    \/ \E k \in ExcKinds : ThreadRaise(k)
    \/ FutureResume
    \/ DispatchFinally
    \/ ReturnResult
    \/ RunFailed
    \/ HandleTaskCancellation
    \/ OnCancelSuspend
    \/ OnCancelResume
    \/ OnCancelReturn
    \/ \E k \in ExcKinds : OnCancelRaise(k)
    \/ Reraise
    \/ ExceptHandler
    \/ CancelHeartbeat
    \/ AwaitHeartbeat
    \/ ExecutorShutdown
    \/ Deliver
    \/ HbStart
    \/ HbStartCancelled
    \/ TimedHbTick
    \/ HbCancelled
    \/ DeliverCancel
    \/ Tick

\* the timed view follows one invocation whose names are registered and
\* whose payload every task accepts, for every task definition
InitTimed ==
    /\ Init
    /\ execution_input =
         [workflow_name |-> KnownWorkflow, task_name |-> KnownTask,
          input_data |-> [kind |-> "dict", hasData |-> FALSE, data |-> None,
                          self |-> "good"]]

SpecTimed == InitTimed /\ [][NextTimed]_vars

\* the invocation is on its way out with a result
Succeeding == pending.kind = "result"

\* C16: in every successful execution whose handler runs for longer than
\* one heartbeat interval, at least one heartbeat call is made before the
\* handler's result is returned (by the heartbeat loop itself when the
\* handler runs in the worker thread), and no heartbeat call is made later
\* than one heartbeat interval after the handler settles.
C16_HeartbeatWhileRunning ==
    /\ (Succeeding /\ clock.ran > HeartbeatInterval) =>
         /\ Len(heartbeats) >= 1
         /\ task.run = "sync" =>
              \E i \in DOMAIN heartbeats : heartbeats[i] = "progress"
    /\ (Succeeding /\ clock.settled > HeartbeatInterval) =>
         Len(heartbeats) = clock.atDeadline

C16_Witness ==
    /\ pc = "done"
    /\ outcome.kind = "result"
    /\ task.run = "sync"
    /\ clock.ran > HeartbeatInterval
    /\ clock.settled > HeartbeatInterval
    /\ Len(heartbeats) = 3
    /\ clock.atDeadline = 3

\* the value the run handler returned: carried by the future for a handler
\* in the worker thread, handed over directly by a coroutine
ReturnedValue == IF fut = "result" THEN futValue ELSE result

\* the WorkflowStepResult of line 258 for the returned value
StepResult ==
    [kind |-> "result", task |-> execution_input.task_name,
     data |-> ReturnedValue, payload |-> NoPayload]

\* C21 as stated: when the run handler returns a value v the invocation
\* returns {task: task_name, data: v} with v unmodified, also when v is None
\* and when the task takes no input.
C21_Original ==
    (pc = "done" /\ runH = "returned") => outcome = StepResult

\* C21 amended: as stated when no cancellation interrupted the awaited run
\* call; a result is returned in no other case.
C21_Amended ==
    pc = "done" =>
        /\ (runH = "returned" /\ ~hist.interrupted) => outcome = StepResult
        /\ outcome.kind = "result" =>
             (runH = "returned" /\ ~hist.interrupted)

C21_Witness ==
    /\ pc = "done"
    /\ task.model_type = None
    /\ execution_input.input_data.kind = "none"
    /\ runH = "returned"
    /\ outcome = [kind |-> "result", task |-> KnownTask, data |-> None,
                  payload |-> NoPayload]

\* C22: the engine never retries: in every invocation the run handler is
\* invoked at most once, whatever the outcome.
C22_NeverRetries ==
    /\ hist.runCalls <= 1
    /\ (pc = "done" /\ outcome.kind # "none" /\ runH # "none")
         => hist.runCalls = 1

C22_Witness ==
    /\ pc = "done"
    /\ outcome.kind = "failure"
    /\ hist.failedAt = "run"
    /\ hist.runCalls = 1

\* ------------------------------------- two invocations in one worker process
\* Each invocation is an asyncio task of its own, with the Context the event
\* loop copied for it.  The steps of the two invocations and of their worker
\* threads interleave freely.

I(i) == proc.inv[i]

\* the task_identifier of lines 248-250
Identity(i) == <<KnownWorkflow, I(i).name>>

\* _structured_print (lines 30-61) called in the Context c by invocation i:
\* a record is written when the marker is set, otherwise the original print
\* is used and no record is written
structured_print(c, i) ==
    IF proc.contexts[c] # NoIdentity
    THEN Append(proc.log, [by |-> i, task_name |-> proc.contexts[c]])
    ELSE proc.log

\* mutant: shared_task_state is one module-level dict
InvStart_SharedState(i) ==
    /\ I(i).pc = "idle"
    /\ \E n \in PairTaskNames(i), r \in Styles, c \in PairOnCancel :
         proc' = [proc EXCEPT
            !.contexts = Append(@, proc.contexts[1]),
            !.executors = Append(@, [jobs |-> 0, shutdown |-> FALSE,
                                     users |-> {}]),
            !.dicts = IF @ = << >> THEN << << >> >> ELSE @,
            !.inv[i] = [@ EXCEPT !.pc = "dispatch", !.name = n, !.run = r,
                          !.on_cancel = c,
                          !.ctx = Len(proc.contexts) + 1,
                          !.executor = Len(proc.executors) + 1,
                          !.state = 1]]
    /\ UNCHANGED <<libVars, clock, execution_input, taskDef, pc, executor, hb,
                   hbCancelReq, heartbeats, heap, shared_task_state,
                   input_data, validated_input, task, runCtx, cancelCtx,
                   runH, fut, futValue, onc, pendingCancel, exc, result,
                   pending, outcome, errLog, task_context, thread_context,
                   hist>>

\* mutant: the executor is one pool of the process
InvStart_SharedExecutor(i) ==
    /\ I(i).pc = "idle"
    /\ \E n \in PairTaskNames(i), r \in Styles, c \in PairOnCancel :
         proc' = [proc EXCEPT
            !.contexts = Append(@, proc.contexts[1]),
            !.executors = IF @ = << >>
                          THEN <<[jobs |-> 0, shutdown |-> FALSE,
                                  users |-> {}]>>
                          ELSE @,
            !.dicts = Append(@, << >>),
            !.inv[i] = [@ EXCEPT !.pc = "dispatch", !.name = n, !.run = r,
                          !.on_cancel = c,
                          !.ctx = Len(proc.contexts) + 1,
                          !.executor = 1,
                          !.state = Len(proc.dicts) + 1]]
    /\ UNCHANGED <<libVars, clock, execution_input, taskDef, pc, executor, hb,
                   hbCancelReq, heartbeats, heap, shared_task_state,
                   input_data, validated_input, task, runCtx, cancelCtx,
                   runH, fut, futValue, onc, pendingCancel, exc, result,
                   pending, outcome, errLog, task_context, thread_context,
                   hist>>

\* the orchestrator starts invocation i; lines 221-225: its executor and
\* its shared_task_state are created
InvStart(i) ==
    /\ I(i).pc = "idle"
    /\ \E n \in PairTaskNames(i), r \in Styles, c \in PairOnCancel :
         proc' = [proc EXCEPT
            !.contexts = Append(@, proc.contexts[1]),
            !.executors = Append(@, [jobs |-> 0, shutdown |-> FALSE,
                                     users |-> {}]),
            !.dicts = Append(@, << >>),
            !.inv[i] = [@ EXCEPT !.pc = "dispatch", !.name = n, !.run = r,
                          !.on_cancel = c,
                          !.ctx = Len(proc.contexts) + 1,
                          !.executor = Len(proc.executors) + 1,
                          !.state = Len(proc.dicts) + 1]]
    /\ UNCHANGED <<libVars, clock, execution_input, taskDef, pc, executor, hb,
                   hbCancelReq, heartbeats, heap, shared_task_state,
                   input_data, validated_input, task, runCtx, cancelCtx,
                   runH, fut, futValue, onc, pendingCancel, exc, result,
                   pending, outcome, errLog, task_context, thread_context,
                   hist>>

\* mutant: the thread runs the handler in a context of its own
InvDispatch_NoCopy(i) ==
    /\ I(i).pc = "dispatch"
    /\ LET marked == [proc.contexts EXCEPT ![I(i).ctx] = Identity(i)]
           e == I(i).executor
       IN IF I(i).run = "async"
          THEN proc' = [proc EXCEPT
                 !.contexts = marked,
                 !.inv[i] = [@ EXCEPT !.pc = "run_async",
                               !.runState = I(i).state]]
          ELSE proc' = [proc EXCEPT
                 !.contexts = Append(marked, NoIdentity),
                 !.executors[e] = [@ EXCEPT !.jobs = @ + 1,
                                     !.users = @ \cup {i}],
                 !.inv[i] = [@ EXCEPT !.pc = "await_future",
                               !.runState = I(i).state,
                               !.thrCtx = Len(proc.contexts) + 1,
                               !.thread = "running"]]
    /\ UNCHANGED <<libVars, clock, execution_input, taskDef, pc, executor, hb,
                   hbCancelReq, heartbeats, heap, shared_task_state,
                   input_data, validated_input, task, runCtx, cancelCtx,
                   runH, fut, futValue, onc, pendingCancel, exc, result,
                   pending, outcome, errLog, task_context, thread_context,
                   hist>>

\* lines 157-171: TaskContext built, the marker set in the task's Context,
\* then the coroutine awaited, or the Context copied and the handler
\* submitted to the invocation's executor
InvDispatch(i) ==
    /\ I(i).pc = "dispatch"
    /\ LET marked == [proc.contexts EXCEPT ![I(i).ctx] = Identity(i)]
           e == I(i).executor
       IN IF I(i).run = "async"
          THEN proc' = [proc EXCEPT
                 !.contexts = marked,
                 !.inv[i] = [@ EXCEPT !.pc = "run_async",
                               !.runState = I(i).state]]
          ELSE proc' = [proc EXCEPT
                 !.contexts = Append(marked, marked[I(i).ctx]),
                 !.executors[e] = [@ EXCEPT !.jobs = @ + 1,
                                     !.users = @ \cup {i}],
                 !.inv[i] = [@ EXCEPT !.pc = "await_future",
                               !.runState = I(i).state,
                               !.thrCtx = Len(proc.contexts) + 1,
                               !.thread = "running"]]
    /\ UNCHANGED <<libVars, clock, execution_input, taskDef, pc, executor, hb,
                   hbCancelReq, heartbeats, heap, shared_task_state,
                   input_data, validated_input, task, runCtx, cancelCtx,
                   runH, fut, futValue, onc, pendingCancel, exc, result,
                   pending, outcome, errLog, task_context, thread_context,
                   hist>>

\* the coroutine run handler prints
InvRunPrint(i) ==
    /\ I(i).pc = "run_async"
    /\ I(i).steps < MaxSteps
    /\ proc' = [proc EXCEPT !.log = structured_print(I(i).ctx, i),
                            !.inv[i] = [@ EXCEPT !.steps = @ + 1]]
    /\ UNCHANGED <<libVars, clock, execution_input, taskDef, pc, executor, hb,
                   hbCancelReq, heartbeats, heap, shared_task_state,
                   input_data, validated_input, task, runCtx, cancelCtx,
                   runH, fut, futValue, onc, pendingCancel, exc, result,
                   pending, outcome, errLog, task_context, thread_context,
                   hist>>

\* the coroutine run handler writes to ctx.state
InvRunWrite(i) ==
    /\ I(i).pc = "run_async"
    /\ I(i).steps < MaxSteps
    /\ proc' = [proc EXCEPT !.dicts[I(i).runState] = Append(@, <<i, "run">>),
                            !.inv[i] = [@ EXCEPT !.steps = @ + 1]]
    /\ UNCHANGED <<libVars, clock, execution_input, taskDef, pc, executor, hb,
                   hbCancelReq, heartbeats, heap, shared_task_state,
                   input_data, validated_input, task, runCtx, cancelCtx,
                   runH, fut, futValue, onc, pendingCancel, exc, result,
                   pending, outcome, errLog, task_context, thread_context,
                   hist>>

\* line 165: the coroutine returns or raises
InvRunExit(i) ==
    /\ I(i).pc = "run_async"
    /\ proc' = [proc EXCEPT !.inv[i] = [@ EXCEPT !.pc = "finally"]]
    /\ UNCHANGED <<libVars, clock, execution_input, taskDef, pc, executor, hb,
                   hbCancelReq, heartbeats, heap, shared_task_state,
                   input_data, validated_input, task, runCtx, cancelCtx,
                   runH, fut, futValue, onc, pendingCancel, exc, result,
                   pending, outcome, errLog, task_context, thread_context,
                   hist>>

\* the run handler in the worker thread prints: ctx.run made the copied
\* Context current
InvThreadPrint(i) ==
    /\ I(i).thread = "running"
    /\ I(i).steps < MaxSteps
    /\ proc' = [proc EXCEPT !.log = structured_print(I(i).thrCtx, i),
                            !.inv[i] = [@ EXCEPT !.steps = @ + 1]]
    /\ UNCHANGED <<libVars, clock, execution_input, taskDef, pc, executor, hb,
                   hbCancelReq, heartbeats, heap, shared_task_state,
                   input_data, validated_input, task, runCtx, cancelCtx,
                   runH, fut, futValue, onc, pendingCancel, exc, result,
                   pending, outcome, errLog, task_context, thread_context,
                   hist>>

InvThreadWrite(i) ==
    /\ I(i).thread = "running"
    /\ I(i).steps < MaxSteps
    /\ proc' = [proc EXCEPT !.dicts[I(i).runState] = Append(@, <<i, "run">>),
                            !.inv[i] = [@ EXCEPT !.steps = @ + 1]]
    /\ UNCHANGED <<libVars, clock, execution_input, taskDef, pc, executor, hb,
                   hbCancelReq, heartbeats, heap, shared_task_state,
                   input_data, validated_input, task, runCtx, cancelCtx,
                   runH, fut, futValue, onc, pendingCancel, exc, result,
                   pending, outcome, errLog, task_context, thread_context,
                   hist>>

\* line 170: the handler returns or raises in the thread, the job is over
InvThreadExit(i) ==
    /\ I(i).thread = "running"
    /\ proc' = [proc EXCEPT
          !.executors[I(i).executor] = [@ EXCEPT !.jobs = @ - 1],
          !.inv[i] = [@ EXCEPT !.thread = "done"]]
    /\ UNCHANGED <<libVars, clock, execution_input, taskDef, pc, executor, hb,
                   hbCancelReq, heartbeats, heap, shared_task_state,
                   input_data, validated_input, task, runCtx, cancelCtx,
                   runH, fut, futValue, onc, pendingCancel, exc, result,
                   pending, outcome, errLog, task_context, thread_context,
                   hist>>

\* line 171 resumed with the future done
InvFutureResume(i) ==
    /\ I(i).pc = "await_future"
    /\ I(i).thread = "done"
    /\ proc' = [proc EXCEPT !.inv[i] = [@ EXCEPT !.pc = "finally"]]
    /\ UNCHANGED <<libVars, clock, execution_input, taskDef, pc, executor, hb,
                   hbCancelReq, heartbeats, heap, shared_task_state,
                   input_data, validated_input, task, runCtx, cancelCtx,
                   runH, fut, futValue, onc, pendingCancel, exc, result,
                   pending, outcome, errLog, task_context, thread_context,
                   hist>>

\* the orchestrator cancels invocation i while it awaits its run handler;
\* a worker thread is left running
InvCancel(i) ==
    /\ I(i).pc \in {"run_async", "await_future"}
    /\ proc' = [proc EXCEPT !.inv[i] = [@ EXCEPT !.pc = "finally",
                                          !.cancelled = TRUE]]
    /\ UNCHANGED <<libVars, clock, execution_input, taskDef, pc, executor, hb,
                   hbCancelReq, heartbeats, heap, shared_task_state,
                   input_data, validated_input, task, runCtx, cancelCtx,
                   runH, fut, futValue, onc, pendingCancel, exc, result,
                   pending, outcome, errLog, task_context, thread_context,
                   hist>>

\* mutant: the marker is one module-level global, cleared for everybody
InvFinally_Global(i) ==
    /\ I(i).pc = "finally"
    /\ proc' = [proc EXCEPT
          !.contexts = [c \in DOMAIN proc.contexts |-> NoIdentity],
          !.inv[i] = [@ EXCEPT !.pc = IF I(i).cancelled THEN "cancelled"
                                      ELSE "cleanup"]]
    /\ UNCHANGED <<libVars, clock, execution_input, taskDef, pc, executor, hb,
                   hbCancelReq, heartbeats, heap, shared_task_state,
                   input_data, validated_input, task, runCtx, cancelCtx,
                   runH, fut, futValue, onc, pendingCancel, exc, result,
                   pending, outcome, errLog, task_context, thread_context,
                   hist>>

\* lines 172-174: the marker is cleared in the task's Context
InvFinally(i) ==
    /\ I(i).pc = "finally"
    /\ proc' = [proc EXCEPT
          !.contexts[I(i).ctx] = NoIdentity,
          !.inv[i] = [@ EXCEPT !.pc = IF I(i).cancelled THEN "cancelled"
                                      ELSE "cleanup"]]
    /\ UNCHANGED <<libVars, clock, execution_input, taskDef, pc, executor, hb,
                   hbCancelReq, heartbeats, heap, shared_task_state,
                   input_data, validated_input, task, runCtx, cancelCtx,
                   runH, fut, futValue, onc, pendingCancel, exc, result,
                   pending, outcome, errLog, task_context, thread_context,
                   hist>>

\* lines 177-187: on_cancel, if defined, is given a TaskContext around the
\* invocation's shared_task_state and runs on the event loop
InvHandleCancellation(i) ==
    /\ I(i).pc = "cancelled"
    /\ IF I(i).on_cancel = None
       THEN proc' = [proc EXCEPT !.inv[i] = [@ EXCEPT !.pc = "cleanup"]]
       ELSE proc' = [proc EXCEPT
              !.inv[i] = [@ EXCEPT !.pc = "oncancel",
                            !.cancelState = I(i).state]]
    /\ UNCHANGED <<libVars, clock, execution_input, taskDef, pc, executor, hb,
                   hbCancelReq, heartbeats, heap, shared_task_state,
                   input_data, validated_input, task, runCtx, cancelCtx,
                   runH, fut, futValue, onc, pendingCancel, exc, result,
                   pending, outcome, errLog, task_context, thread_context,
                   hist>>

\* on_cancel prints, in the task's Context
InvOnCancelPrint(i) ==
    /\ I(i).pc = "oncancel"
    /\ I(i).csteps < MaxSteps
    /\ proc' = [proc EXCEPT !.log = structured_print(I(i).ctx, i),
                            !.inv[i] = [@ EXCEPT !.csteps = @ + 1]]
    /\ UNCHANGED <<libVars, clock, execution_input, taskDef, pc, executor, hb,
                   hbCancelReq, heartbeats, heap, shared_task_state,
                   input_data, validated_input, task, runCtx, cancelCtx,
                   runH, fut, futValue, onc, pendingCancel, exc, result,
                   pending, outcome, errLog, task_context, thread_context,
                   hist>>

InvOnCancelWrite(i) ==
    /\ I(i).pc = "oncancel"
    /\ I(i).csteps < MaxSteps
    /\ proc' = [proc EXCEPT
          !.dicts[I(i).cancelState] = Append(@, <<i, "on_cancel">>),
          !.inv[i] = [@ EXCEPT !.csteps = @ + 1]]
    /\ UNCHANGED <<libVars, clock, execution_input, taskDef, pc, executor, hb,
                   hbCancelReq, heartbeats, heap, shared_task_state,
                   input_data, validated_input, task, runCtx, cancelCtx,
                   runH, fut, futValue, onc, pendingCancel, exc, result,
                   pending, outcome, errLog, task_context, thread_context,
                   hist>>

\* on_cancel returns or raises
InvOnCancelExit(i) ==
    /\ I(i).pc = "oncancel"
    /\ proc' = [proc EXCEPT !.inv[i] = [@ EXCEPT !.pc = "cleanup"]]
    /\ UNCHANGED <<libVars, clock, execution_input, taskDef, pc, executor, hb,
                   hbCancelReq, heartbeats, heap, shared_task_state,
                   input_data, validated_input, task, runCtx, cancelCtx,
                   runH, fut, futValue, onc, pendingCancel, exc, result,
                   pending, outcome, errLog, task_context, thread_context,
                   hist>>

\* lines 280-282 and 201: executor.shutdown(wait=False), the invocation ends
InvCleanup(i) ==
    /\ I(i).pc = "cleanup"
    /\ proc' = [proc EXCEPT
          !.executors[I(i).executor] = [@ EXCEPT !.shutdown = TRUE],
          !.inv[i] = [@ EXCEPT !.pc = "done"]]
    /\ UNCHANGED <<libVars, clock, execution_input, taskDef, pc, executor, hb,
                   hbCancelReq, heartbeats, heap, shared_task_state,
                   input_data, validated_input, task, runCtx, cancelCtx,
                   runH, fut, futValue, onc, pendingCancel, exc, result,
                   pending, outcome, errLog, task_context, thread_context,
                   hist>>

NextPair ==
    \/ \E i \in Invs : InvStart(i)
    \/ \E i \in Invs : InvDispatch(i)
    \/ \E i \in Invs : InvRunPrint(i)
    \/ \E i \in Invs : InvRunWrite(i)
    \/ \E i \in Invs : InvRunExit(i)
    \/ \E i \in Invs : InvThreadPrint(i)
    \/ \E i \in Invs : InvThreadWrite(i)
    \/ \E i \in Invs : InvThreadExit(i)
    \/ \E i \in Invs : InvFutureResume(i)
    \/ \E i \in Invs : InvCancel(i)
    \/ \E i \in Invs : InvFinally(i)
    \/ \E i \in Invs : InvHandleCancellation(i)
    \/ \E i \in Invs : InvOnCancelPrint(i)
    \/ \E i \in Invs : InvOnCancelWrite(i)
    \/ \E i \in Invs : InvOnCancelExit(i)
    \/ \E i \in Invs : InvCleanup(i)

\* the single-invocation variables stay as they are in this view
InitPair ==
    /\ Init
    /\ execution_input =
         [workflow_name |-> KnownWorkflow, task_name |-> KnownTask,
          input_data |-> [kind |-> "none", hasData |-> FALSE, data |-> None,
                          self |-> None]]
    /\ taskDef = [name |-> KnownTask, model_type |-> None, run |-> "async",
                  on_cancel |-> None]

SpecPair == InitPair /\ [][NextPair]_vars

\* the marker invocation i's own code reads on the event loop
Marker(i) == proc.contexts[I(i).ctx]

\* the marker the run handler of i reads in the worker thread
ThreadMarker(i) == proc.contexts[I(i).thrCtx]

\* C23: for any interleaving of two concurrent invocations, every structured
\* log record carries the identity of the invocation whose handler printed
\* it, and setting or clearing the marker in one invocation never changes
\* the marker the other one observes.
C23_NoCrossTalk ==
    /\ \A k \in DOMAIN proc.log :
         proc.log[k].task_name = Identity(proc.log[k].by)
    /\ \A i \in Invs :
         /\ I(i).pc \in {"run_async", "await_future", "finally"}
              => Marker(i) = Identity(i)
         /\ I(i).pc \in {"dispatch", "cancelled", "oncancel", "cleanup", "done"}
              => Marker(i) = NoIdentity

C23_Witness ==
    /\ I(1).name # I(2).name
    /\ I(1).pc = "run_async"
    /\ I(2).pc = "cleanup"
    /\ proc.log = <<[by |-> 2, task_name |-> Identity(2)],
                    [by |-> 1, task_name |-> Identity(1)]>>

\* C25: while a blocking run handler executes in the worker thread, the
\* marker visible in that thread is the identity of the invocation that
\* dispatched it, for every interleaving with the other invocation: it is
\* read from the Context copied at dispatch, which no other code uses.
C25_ThreadIdentity ==
    \A i \in Invs :
        I(i).thread = "running" =>
            /\ ThreadMarker(i) = Identity(i)
            /\ I(i).thrCtx # 1
            /\ \A j \in Invs : I(i).thrCtx # I(j).ctx
            /\ \A j \in Invs \ {i} : I(i).thrCtx # I(j).thrCtx

C25_Witness ==
    /\ I(1).thread = "running"
    /\ I(1).pc = "done"
    /\ Marker(1) = NoIdentity
    /\ I(2).pc = "run_async"
    /\ Marker(2) = Identity(2)
    /\ I(1).name # I(2).name
    /\ \E k \in DOMAIN proc.log : proc.log[k] = [by |-> 1, task_name |-> Identity(1)]

\* the task_identifier of the invocation (lines 248-250)
TaskIdentifier ==
    <<execution_input.workflow_name, execution_input.task_name>>

\* pcs of _execute_task after _execute_task_function has returned or raised
AfterDispatchPcs ==
    {"dispatched", "oncancel_async", "oncancel_sync", "await_oncancel",
     "reraise", "except", "cleanup", "await_hb", "shutdown", "deliver",
     "done"}

\* C24: the task-identity marker is set for the whole time the run handler
\* executes and is unset once handler dispatch has returned, on every way
\* dispatch can return: normal return, handler error, cancellation.
C24_MarkerSetWhileRunning ==
    /\ pc \in {"run_async", "await_run", "await_future", "dispatch_finally"}
         => task_context = TaskIdentifier
    /\ InThread => thread_context = TaskIdentifier
    /\ pc \in AfterDispatchPcs => task_context = NoIdentity

C24_Witness ==
    /\ pc = "dispatched"
    /\ exc.kind = "Cancelled"
    /\ hist.runCalls = 1
    /\ task_context = NoIdentity
    /\ InThread
    /\ thread_context = TaskIdentifier

\* C26: cancellation that arrives while a blocking run handler executes in
\* its worker thread does not stop the thread: the handler leaves the
\* thread only by returning or raising there, in a step that is not one of
\* the invocation's coroutine, and until then it can write to the shared
\* state, also after the invocation was reported Cancelled.
C26_ThreadNotStopped ==
    [][/\ (InThread /\ ~InThread') =>
             (runH' \in {"returned", "raised"} /\ pc' = pc)
       /\ (InThread /\ hist.runWrites < MaxWrites) => ENABLED ThreadWrite]_vars

\* the invocation was reported Cancelled, on_cancel finished, the heartbeat
\* stopped, the executor shut down, and run still executes in the thread
C26_Witness ==
    /\ pc = "done"
    /\ outcome.kind = "cancelled"
    /\ onc = "returned"
    /\ hb = "finished"
    /\ executor = "shutdown"
    /\ InThread
    /\ hist.runWrites < MaxWrites
    /\ runCtx.state = shared_task_state

Started(i) == I(i).pc # "idle"

StartedInvs == {i \in Invs : Started(i)}

\* C27: each invocation creates exactly one SharedTaskState, empty at
\* creation; run and on_cancel of the invocation are handed that same
\* object; no two invocations, concurrent or sequential, of the same task or
\* not, receive the same object or observe each other's mutations.
C27_OneStatePerInvocation ==
    /\ Len(proc.dicts) = Cardinality(StartedInvs)
    /\ \A i \in StartedInvs :
         /\ I(i).state \in DOMAIN proc.dicts
         /\ I(i).pc = "dispatch" => proc.dicts[I(i).state] = << >>
         /\ I(i).runState = IF I(i).pc = "dispatch" THEN 0 ELSE I(i).state
         /\ I(i).cancelState \in {0, I(i).state}
         /\ I(i).pc = "oncancel" => I(i).cancelState = I(i).state
         /\ \A k \in DOMAIN proc.dicts[I(i).state] :
              proc.dicts[I(i).state][k][1] = i
         /\ \A j \in StartedInvs \ {i} : I(j).state # I(i).state

C27_Witness ==
    /\ I(1).name = I(2).name
    /\ I(1).pc = "done"
    /\ I(2).pc = "done"
    /\ proc.dicts[I(1).state] = << <<1, "run">>, <<1, "on_cancel">> >>
    /\ proc.dicts[I(2).state] = << <<2, "run">> >>

\* C28: each invocation owns a worker executor of capacity one, created for
\* it and shut down with it: at most one job ever runs on it, and handlers
\* of two invocations never run on the same worker thread.
C28_OwnExecutor ==
    /\ Len(proc.executors) = Cardinality(StartedInvs)
    /\ \A e \in DOMAIN proc.executors : proc.executors[e].jobs \in {0, 1}
    /\ \A i \in StartedInvs :
         LET ex == proc.executors[I(i).executor]
         IN /\ ex.users \subseteq {i}
            /\ ex.shutdown <=> I(i).pc = "done"
            /\ I(i).thread = "running" => (ex.jobs = 1 /\ ex.users = {i})
            /\ I(i).thread # "running" => ex.jobs = 0
            /\ \A j \in StartedInvs \ {i} : I(j).executor # I(i).executor

C28_Witness ==
    /\ I(1).thread = "running"
    /\ I(2).thread = "running"
    /\ I(1).pc = "done"
    /\ I(2).pc = "await_future"
    /\ proc.executors[I(1).executor].shutdown
    /\ proc.executors[I(2).executor].users = {2}

\* the payload the claim describes for an invocation input
ClaimedPayload(ei) ==
    IF ei.input_data.kind = "none" THEN None
    ELSE IF ei.input_data.hasData THEN ei.input_data.data
    ELSE ei.input_data.self

\* C29: if input_data contains a data key the payload handed to validation
\* is the value under that key; for every other non-absent input_data, an
\* empty object included, the payload is input_data itself; the payload is
\* absent only when input_data is absent.
C29_PayloadSelection ==
    pc \notin {"start", "process"} =>
        /\ input_data = ClaimedPayload(execution_input)
        /\ (input_data = None /\ ~execution_input.input_data.hasData)
             => execution_input.input_data.kind = "none"

\* C30: for every task that declares no input schema, every input_data
\* yields the validated input None, validation never fails, and the run
\* handler is invoked with that absent input.
C30_NoSchemaNoInput ==
    (task # NoTask /\ task.model_type = None) =>
        /\ validated_input = None
        /\ hist.failedAt # "validate"
        /\ (pc = "except" => hist.failedAt # "none")
        /\ runH # "none" => runCtx.input = None
        /\ pc = "done" => hist.runCalls = 1

C30_Witness ==
    /\ task # NoTask
    /\ task.model_type = None
    /\ input_data = "bad"
    /\ runH = "active"
    /\ runCtx.input = None

\* ------------------------------------------------ the print interception
\*
\* printing.modules  the loaded modules that keep an _original_print global:
\*                   activity.py ("activity", with its _task_context) and
\*                   moose_lib/structured_logging.py ("library")
\* printing.fns      the wrapper function objects; a function reads the
\*                   globals of its module when it is called.  var = 0: the
\*                   context variable is the module global _task_context;
\*                   otherwise it is the variable the closure captured
\* printing.print    builtins.print: 0 is the builtin, n > 0 is fns[n]
\* printing.vars     the value of each context variable in the current context
\* The timestamp of a record plays no part in any property and is left out.

\* str(arg) for the argument values used
Str(v) == IF v = "int1" THEN "1" ELSE v

\* sep.join(str(arg) for arg in args)
RECURSIVE Join(_, _)
Join(args, sep) ==
    IF args = << >> THEN ""
    ELSE IF Len(args) = 1 THEN Str(args[1])
    ELSE Str(args[1]) \o sep \o Join(Tail(args), sep)

StandardFiles == {None, "stderr", "stdout"}

\* truth value of a context value: None and the empty string are falsy
ContextSet(value) == value # None /\ value # ""

\* the context variable function f reads when called
ContextVarOf(p, f) ==
    IF p.fns[f].var = 0 THEN p.modules[p.fns[f].module].ctxvar
    ELSE p.fns[f].var

\* the structured record of one call
StructuredRecord(call, field, value) ==
    [marker |-> TRUE, level |-> "info", message |-> Join(call.args, call.sep),
     field |-> field, identity |-> value]

\* mutant: the wrapper intercepts whatever the destination is
Intercepts_AnyFile(p, f, call) ==
    ContextSet(p.vars[ContextVarOf(p, f)])

\* the test of lines 41 and 63: a context value is set and the destination
\* is the default or one of the two standard streams
Intercepts(p, f, call) ==
    /\ ContextSet(p.vars[ContextVarOf(p, f)])
    /\ call.file \in StandardFiles

\* _structured_print / structured_print called as function f (0: the builtin
\* print).  fuel counts the frames left on the interpreter's stack: a chain
\* of distinct wrappers is never longer than the number of functions, so
\* running out of fuel is the RecursionError of a wrapper calling itself.
RECURSIVE CallPrint(_, _, _, _)
CallPrint(p, f, call, fuel) ==
    IF f = 0
    THEN [records |-> << >>, forwarded |-> <<call>>, raised |-> FALSE]
    ELSE IF fuel = 0
    THEN [records |-> << >>, forwarded |-> << >>, raised |-> TRUE]
    ELSE IF Intercepts(p, f, call)
         THEN [records |-> <<StructuredRecord(call, p.fns[f].field,
                                              p.vars[ContextVarOf(p, f)])>>,
               forwarded |-> << >>, raised |-> FALSE]
         ELSE CallPrint(p, p.modules[p.fns[f].module].original_print, call,
                        fuel - 1)

\* the stream the builtin print writes to
StreamOf(file) == IF file = None THEN "stdout" ELSE file

\* mutant: the flush request is not passed to the error stream
StreamsAfter_NoFlush(u, call, eff) ==
    LET u1 == IF eff.records # << >>
              THEN [u EXCEPT !.stderr = @ + 1]
              ELSE u
    IN  IF eff.forwarded # << >>
        THEN [u1 EXCEPT ![StreamOf(call.file)] =
                            IF call.flush THEN 0 ELSE @ + 1]
        ELSE u1

\* the unflushed writes after the call: a record goes to sys.stderr, a
\* forwarded call to its file; flush empties the stream written to
StreamsAfter(u, call, eff) ==
    LET u1 == IF eff.records # << >>
              THEN [u EXCEPT !.stderr = IF call.flush THEN 0 ELSE @ + 1]
              ELSE u
    IN  IF eff.forwarded # << >>
        THEN [u1 EXCEPT ![StreamOf(call.file)] =
                            IF call.flush THEN 0 ELSE @ + 1]
        ELSE u1

ActivityModules == {i \in 1..Len(printing.modules) :
                        printing.modules[i].kind = "activity"}

LibraryModules == {i \in 1..Len(printing.modules) :
                        printing.modules[i].kind = "library"}

\* activity.py is executed as a new module object (lines 20-65)
LoadActivity ==
    /\ printing.installs < MaxInstalls
    /\ printing' = [printing EXCEPT
         !.vars = Append(@, None),
         !.modules = Append(@, [kind |-> "activity",
                                original_print |-> printing.print,
                                ctxvar |-> Len(printing.vars) + 1]),
         !.fns = Append(@, [module |-> Len(printing.modules) + 1, var |-> 0,
                            field |-> "task_name"]),
         !.print = Len(printing.fns) + 1,
         !.installs = @ + 1]
    /\ UNCHANGED <<activityVars, logging, streaming, worker, writer>>

\* activity.py is executed again in the namespace of module i: the globals
\* _task_context, _original_print and _structured_print are rebound, and the
\* functions defined by earlier executions read the rebound globals
ReloadActivity(i) ==
    /\ printing.installs < MaxInstalls
    /\ i \in ActivityModules
    /\ printing' = [printing EXCEPT
         !.vars[printing.modules[i].ctxvar] = None,
         !.modules[i].original_print = printing.print,
         !.fns = Append(@, [module |-> i, var |-> 0, field |-> "task_name"]),
         !.print = Len(printing.fns) + 1,
         !.installs = @ + 1]
    /\ UNCHANGED <<activityVars, logging, streaming, worker, writer>>

\* moose_lib/structured_logging.py is imported (line 21)
ImportLibrary ==
    /\ printing.installs < MaxInstalls
    /\ LibraryModules = {}
    /\ printing' = [printing EXCEPT
         !.modules = Append(@, [kind |-> "library",
                                original_print |-> printing.print,
                                ctxvar |-> 0]),
         !.installs = @ + 1]
    /\ UNCHANGED <<activityVars, logging, streaming, worker, writer>>

\* builtins.print = create_structured_print_wrapper(context_var, field) with
\* a context variable of the caller's
create_structured_print_wrapper(i) ==
    /\ printing.installs < MaxInstalls
    /\ i \in LibraryModules
    /\ printing' = [printing EXCEPT
         !.vars = Append(@, None),
         !.fns = Append(@, [module |-> i, var |-> Len(printing.vars) + 1,
                            field |-> "function_name"]),
         !.print = Len(printing.fns) + 1,
         !.installs = @ + 1]
    /\ UNCHANGED <<activityVars, logging, streaming, worker, writer>>

\* the identity a context variable is set to
IdentityOf(v) ==
    IF \E i \in ActivityModules : printing.modules[i].ctxvar = v
    THEN "wf/task" ELSE "fn"

\* context_var.set(identity) / context_var.set(None)
SetContext(v) ==
    /\ v \in 1..Len(printing.vars)
    /\ printing' = [printing EXCEPT
         !.vars[v] = IF @ = None THEN IdentityOf(v) ELSE None]
    /\ UNCHANGED <<activityVars, logging, streaming, worker, writer>>

\* the identities set in the current context
IdentitiesSet(p) == {p.vars[v] : v \in {w \in 1..Len(p.vars) : ContextSet(p.vars[w])}}

\* print(*args, sep=, end=, file=, flush=) through builtins.print
PrintCall(call) ==
    /\ printing.calls < MaxPrints
    /\ LET eff == CallPrint(printing, printing.print, call,
                            Len(printing.fns) + 1)
       IN  printing' = [printing EXCEPT
             !.calls = @ + 1,
             !.unflushed = StreamsAfter(@, call, eff),
             !.last = [made |-> TRUE, call |-> call,
                       identities |-> IdentitiesSet(printing),
                       records |-> eff.records, forwarded |-> eff.forwarded,
                       raised |-> eff.raised]]
    /\ UNCHANGED <<activityVars, logging, streaming, worker, writer>>

\* no invocation is under way while the programs around the activity run
InitLibrary ==
    /\ Init
    /\ execution_input =
         [workflow_name |-> KnownWorkflow, task_name |-> KnownTask,
          input_data |-> [kind |-> "none", hasData |-> FALSE, data |-> None,
                          self |-> None]]
    /\ taskDef = [name |-> KnownTask, model_type |-> None, run |-> "async",
                  on_cancel |-> None]

\* a process as the programs set it up: the task worker loads activity.py
\* once, a streaming process installs one wrapper of the library; either may
\* import the library module
NextPrint ==
    \/ printing.fns = << >> /\ LoadActivity
    \/ ImportLibrary
    \/ \E i \in 1..MaxInstalls :
           printing.fns = << >> /\ create_structured_print_wrapper(i)
    \/ \E v \in 1..MaxInstalls : SetContext(v)
    \/ \E call \in PrintCalls : PrintCall(call)

SpecPrint == InitLibrary /\ [][NextPrint]_vars

\* print("a") and print("a", file=f): what is printed plays no part in
\* where a call ends up
PlainPrintCalls ==
    {call \in PrintCalls : /\ call.args = <<"a">>
                           /\ call.sep = " "
                           /\ call.end = "\n"
                           /\ ~call.flush}

\* a process in which the interception is installed any number of times
NextInstall ==
    \/ LoadActivity
    \/ ImportLibrary
    \/ \E i \in 1..MaxInstalls : create_structured_print_wrapper(i)
    \/ \E i \in 1..MaxInstalls : ReloadActivity(i)
    \/ \E v \in 1..MaxInstalls : SetContext(v)
    \/ \E call \in PlainPrintCalls : PrintCall(call)

SpecInstall == InitLibrary /\ [][NextInstall]_vars

\* ------------------------------------------------------------------ C31
\* the last print call was aimed at a standard stream while an identity
\* was set
Intercepted ==
    /\ printing.last.made
    /\ printing.last.identities # {}
    /\ printing.last.call.file \in StandardFiles

\* the last print call was made with no identity set
PlainCall == printing.last.made /\ printing.last.identities = {}

\* C31: however often the interception has been installed (activity.py
\* loaded or executed again, the library's wrapper installed over it or
\* under it), a print call with no identity set reaches the builtin print
\* exactly once and returns, a print call with an identity set emits exactly
\* one structured record, and no wrapper ends up calling itself.
C31_InstallIdempotent ==
    /\ printing.last.made => ~printing.last.raised
    /\ PlainCall => /\ Len(printing.last.forwarded) = 1
                    /\ printing.last.records = << >>
    /\ Intercepted => /\ Len(printing.last.records) = 1
                      /\ printing.last.forwarded = << >>

\* ------------------------------------------------------------------ C32
\* the last print call was one the wrapper has to leave alone
PassThrough ==
    /\ printing.last.made
    /\ \/ printing.last.identities = {}
       \/ printing.last.call.file \notin StandardFiles

\* C32: a print call made while no identity is set, or aimed at a file other
\* than the two standard streams, arrives at the original print with the
\* arguments, sep, end, file and flush it was made with, and emits no
\* structured record.
C32_PassThroughUnmodified ==
    PassThrough => /\ printing.last.forwarded = <<printing.last.call>>
                   /\ printing.last.records = << >>
                   /\ ~printing.last.raised

C32_Witness ==
    /\ printing.fns # << >>
    /\ printing.last.made
    /\ printing.last.identities # {}
    /\ printing.last.call.file = "custom"
    /\ printing.last.call.sep = ","
    /\ printing.last.call.flush
    /\ printing.last.forwarded = <<printing.last.call>>

\* ------------------------------------------------------------------ C33
\* C33: while an identity is set, a print call aimed at standard output,
\* standard error or the default destination writes exactly one structured
\* record to the error stream, with the marker, a level, the arguments joined
\* by sep as message and the identity that is set; the original print is not
\* called, so nothing reaches standard output; with flush the error stream
\* holds nothing unflushed when the call returns.
C33_OneRecordPerPrint ==
    Intercepted =>
        /\ Len(printing.last.records) = 1
        /\ printing.last.records[1].marker
        /\ printing.last.records[1].level = "info"
        /\ printing.last.records[1].message =
               Join(printing.last.call.args, printing.last.call.sep)
        /\ (printing.last.call.args = <<"a", "int1">>
              /\ printing.last.call.sep = ",")
             => printing.last.records[1].message = "a,1"
        /\ printing.last.call.args = << >>
             => printing.last.records[1].message = ""
        /\ printing.last.identities = {printing.last.records[1].identity}
        /\ printing.last.forwarded = << >>
        /\ printing.last.call.flush => printing.unflushed.stderr = 0

\* a second intercepted print, with flush, after one without
C33_Witness ==
    /\ Intercepted
    /\ printing.calls = 2
    /\ printing.last.call.flush
    /\ printing.last.call.file = "stdout"
    /\ printing.last.call.args = <<"a", "int1">>
    /\ printing.unflushed.stderr = 0
    /\ printing.unflushed.stdout = 0
    /\ Len(printing.last.records) = 1

\* ------------------------------------------------------------------ C34
Logged(what) == \E i \in DOMAIN errLog : errLog[i] = what

\* the outcome is known: it is held for the finally block or delivered
OutcomeKnown == pending.kind # "none" \/ outcome.kind # "none"

\* C34 as stated: on every failure path (resolution, validation, an error
\* raised by run, an error of on_cancel that is swallowed) at least one
\* error record has been logged when the outcome reaches the caller.
C34_Original ==
    pc = "done" =>
        /\ hist.failedAt \in {"resolve", "validate", "run"} => errLog # << >>
        /\ (onc = "raised" /\ outcome.kind = "cancelled") => Logged("onCancel")

\* C34 amended: as stated for errors of class Exception, and the record is
\* written before the outcome is held for teardown; a BaseException of run
\* that is not an Exception reaches the caller without any error record.
C34_Amended ==
    /\ (OutcomeKnown /\ hist.failedAt \in {"resolve", "validate", "run"}) =>
          /\ exc.kind = "Exception" => Logged("failure")
          /\ exc.kind # "Exception" => (hist.failedAt = "run" /\ errLog = << >>)
    /\ (OutcomeKnown /\ onc = "raised" /\ hist.onCancelExc = "Exception") =>
          Logged("onCancel")
    /\ (pc = "done" /\ onc = "raised" /\ outcome.kind = "cancelled") =>
          hist.onCancelExc = "Exception"

C34_Witness ==
    /\ pc = "done"
    /\ hist.failedAt = "resolve"
    /\ outcome.kind = "failure"
    /\ errLog = <<"failure">>

\* --------------------------------------------------- StructuredLogContext
\*
\* logging.context  the value of _logging_context in the running thread
\* logging.stack    the active calls of run, innermost first: the dictionary
\*                  each was called with and the token its set() returned
\*                  (a token holds the value the variable had before)
\* logging.raising  an exception raised by func is travelling up the stack
\* logging.last     the last call of log and the records it wrote

\* get_context_field as the callers pass it: lambda ctx: ctx["function_name"]
get_context_field(context) == context.function_name

\* line 52 and the call of func at line 54
LogRunEnter(context) ==
    /\ logging.runs < MaxRuns
    /\ ~logging.raising
    /\ logging' = [logging EXCEPT
         !.stack = <<[context |-> context,
                      token |-> [old_value |-> logging.context]]>> \o @,
         !.context = context,
         !.runs = @ + 1]
    /\ UNCHANGED <<activityVars, printing, streaming, worker, writer>>

\* mutant: the context is cleared instead of restored
LogRunReturn_Clears ==
    /\ logging.stack # << >>
    /\ ~logging.raising
    /\ logging' = [logging EXCEPT !.stack = Tail(@), !.context = NoLogContext]
    /\ UNCHANGED <<activityVars, printing, streaming, worker, writer>>

\* func returns: the finally block resets the variable with the token
LogRunReturn ==
    /\ logging.stack # << >>
    /\ ~logging.raising
    /\ logging' = [logging EXCEPT
         !.stack = Tail(@),
         !.context = Head(logging.stack).token.old_value]
    /\ UNCHANGED <<activityVars, printing, streaming, worker, writer>>

\* func raises, or lets an exception of an inner run pass: the finally block
\* resets the variable and the exception goes on to the caller of run
LogRunRaise ==
    /\ logging.stack # << >>
    /\ logging' = [logging EXCEPT
         !.stack = Tail(@),
         !.context = Head(logging.stack).token.old_value,
         !.raising = TRUE]
    /\ UNCHANGED <<activityVars, printing, streaming, worker, writer>>

\* the caller of run catches the exception
CatchRaised ==
    /\ logging.raising
    /\ logging' = [logging EXCEPT !.raising = FALSE]
    /\ UNCHANGED <<activityVars, printing, streaming, worker, writer>>

\* the dictionary the innermost active run was called with
InnermostContext ==
    IF logging.stack = << >> THEN NoLogContext
    ELSE Head(logging.stack).context

\* the record log builds (lines 66-76); the timestamp is left out
LogEntry(level, message, context) ==
    IF context # NoLogContext
    THEN [marker |-> TRUE, level |-> level, message |-> message,
          has_field |-> TRUE, field |-> get_context_field(context)]
    ELSE [marker |-> TRUE, level |-> level, message |-> message,
          has_field |-> FALSE, field |-> None]

\* mutant: the record is built without looking at the context
LogCall_NoField(level, message) ==
    /\ ~logging.raising
    /\ logging' = [logging EXCEPT
         !.last = [made |-> TRUE, level |-> level, message |-> message,
                   depth |-> Len(logging.stack),
                   innermost |-> InnermostContext,
                   emitted |-> <<LogEntry(level, message, NoLogContext)>>]]
    /\ UNCHANGED <<activityVars, printing, streaming, worker, writer>>

\* StructuredLogContext.log(level, message), inside func or outside any run
LogCall(level, message) ==
    /\ ~logging.raising
    /\ logging' = [logging EXCEPT
         !.last = [made |-> TRUE, level |-> level, message |-> message,
                   depth |-> Len(logging.stack),
                   innermost |-> InnermostContext,
                   emitted |-> <<LogEntry(level, message, logging.context)>>]]
    /\ UNCHANGED <<activityVars, printing, streaming, worker, writer>>

NextLogging ==
    \/ \E context \in LogContexts : LogRunEnter(context)
    \/ LogRunReturn
    \/ LogRunRaise
    \/ CatchRaised
    \/ \E level \in LogLevels, message \in LogMessages : LogCall(level, message)

SpecLogging == InitLibrary /\ [][NextLogging]_vars

\* ------------------------------------------------------------------ C35
\* C35: run restores the logging context it found, whether func returns or
\* raises: the current context is always the one of the innermost active
\* run, and there is none outside every run, so nothing of an earlier run is
\* left behind and after a nested run the outer run's context is back.
C35_RunRestoresContext ==
    /\ logging.context = InnermostContext
    /\ logging.stack = << >> => logging.context = NoLogContext

\* after a nested run that raised, inside an outer run with another context
C35_Witness ==
    /\ logging.runs = 2
    /\ Len(logging.stack) = 1
    /\ logging.raising
    /\ logging.context = [kind |-> "dict", function_name |-> "function1"]

\* ------------------------------------------------------------------ C36
\* C36: log always emits exactly one record, with the marker, the level and
\* the message it was given; the record has the context field exactly when
\* log is called inside a run, and the field's value is then extracted from
\* the dictionary of the innermost active run.
C36_OneRecordPerLog ==
    logging.last.made =>
        /\ Len(logging.last.emitted) = 1
        /\ logging.last.emitted[1].marker
        /\ logging.last.emitted[1].level = logging.last.level
        /\ logging.last.emitted[1].message = logging.last.message
        /\ logging.last.emitted[1].has_field <=> logging.last.depth > 0
        /\ logging.last.emitted[1].has_field =>
             logging.last.emitted[1].field =
                 logging.last.innermost.function_name

\* a log inside a run nested in a run with another context
C36_Witness ==
    /\ logging.last.made
    /\ Len(logging.stack) = 2
    /\ logging.stack[2].context.function_name = "function1"
    /\ logging.last.depth = 2
    /\ logging.last.level = "error"
    /\ logging.last.emitted[1].has_field
    /\ logging.last.emitted[1].field = "function2"

\* ------------------------------------------------------------------ C37
\* a cancellation was delivered while the engine awaited on_cancel
CancelledInOnCancel == "await_oncancel" \in hist.cancelAt

\* C37: when a second cancellation arrives while a non-blocking on_cancel is
\* awaited, on_cancel is interrupted and is not called again, the caller
\* gets a cancellation and never a result or a failure payload, and the
\* heartbeat loop has ended and the executor is shut down when it does.
C37_SecondCancelDuringOnCancel ==
    CancelledInOnCancel =>
        /\ hist.onCancelCalls = 1
        /\ task.on_cancel = "async"
        /\ pc # "await_oncancel" =>
             /\ onc = "cancelled"
             /\ pc \in {"cleanup", "await_hb", "shutdown", "deliver", "done"}
             /\ pending.kind = "cancelled"
        /\ pc = "done" =>
             /\ outcome.kind = "cancelled"
             /\ HbDone
             /\ executor = "shutdown"

C37_Witness ==
    /\ CancelledInOnCancel
    /\ pc = "done"
    /\ hist.cancels = 2
    /\ onc = "cancelled"
    /\ outcome.kind = "cancelled"
    /\ executor = "shutdown"

\* ------------------------------------------- streaming_runner_wrapper.py
\*
\* streaming.main   main thread: running (inside try), finally (line 71
\*                  done), done (line 72 done), exited
\* streaming.ended  how module.main() ended: no, returned, raised
\* streaming.mon    monitor thread: test (line 18), sleep (line 19), changed
\*                  (line 22 saw another parent), signal (line 37), poll
\*                  (line 43), pollsleep (line 45), force (line 48), returned
\* streaming.parent whether os.getppid() still gives the original parent
\* requested is history: the monitor has set shutdown_flag.  A signal sent
\* to the own process cannot fail, so line 39 is never reached.

\* the parent process goes away and the process is adopted
StreamParentExits ==
    /\ streaming.parent = "same"
    /\ streaming' = [streaming EXCEPT !.parent = "changed"]
    /\ UNCHANGED <<activityVars, printing, logging, worker, writer>>

\* line 18
StreamMonTest ==
    /\ streaming.alive
    /\ streaming.mon = "test"
    /\ streaming' = [streaming EXCEPT
         !.mon = IF streaming.shutdown_flag THEN "returned" ELSE "sleep"]
    /\ UNCHANGED <<activityVars, printing, logging, worker, writer>>

\* lines 19-23
StreamMonWake ==
    /\ streaming.alive
    /\ streaming.mon = "sleep"
    /\ streaming' = [streaming EXCEPT
         !.mon = IF streaming.parent = "same" THEN "test" ELSE "changed"]
    /\ UNCHANGED <<activityVars, printing, logging, worker, writer>>

\* lines 25-34: the probe of the old parent changes nothing
StreamMonRequest ==
    /\ streaming.alive
    /\ streaming.mon = "changed"
    /\ streaming' = [streaming EXCEPT
         !.shutdown_flag = TRUE, !.requested = TRUE, !.mon = "signal"]
    /\ UNCHANGED <<activityVars, printing, logging, worker, writer>>

\* line 37: SIGTERM to the own process.  With the default disposition it
\* ends the process; with a handler installed by the module it does not
StreamMonSignal(handled) ==
    /\ streaming.alive
    /\ streaming.mon = "signal"
    /\ streaming' = [streaming EXCEPT
         !.sigterms = @ + 1, !.mon = "poll", !.alive = handled]
    /\ UNCHANGED <<activityVars, printing, logging, worker, writer>>

\* mutant: the grace window is waited out without looking at process_done
StreamMonPoll_NoCheck ==
    /\ streaming.alive
    /\ streaming.mon = "poll"
    /\ streaming' = [streaming EXCEPT !.mon = "pollsleep", !.polls = @ + 1]
    /\ UNCHANGED <<activityVars, printing, logging, worker, writer>>

\* lines 42-44: one poll of process_done
StreamMonPoll ==
    /\ streaming.alive
    /\ streaming.mon = "poll"
    /\ streaming' = [streaming EXCEPT
         !.mon = IF streaming.process_done THEN "returned" ELSE "pollsleep",
         !.polls = IF streaming.process_done THEN @ ELSE @ + 1]
    /\ UNCHANGED <<activityVars, printing, logging, worker, writer>>

\* line 45, then the next round of the for loop or its end
StreamMonPollSleep ==
    /\ streaming.alive
    /\ streaming.mon = "pollsleep"
    /\ streaming' = [streaming EXCEPT
         !.mon = IF streaming.polls < GracePolls THEN "poll" ELSE "force"]
    /\ UNCHANGED <<activityVars, printing, logging, worker, writer>>

\* line 48: os._exit(0)
StreamMonForce ==
    /\ streaming.alive
    /\ streaming.mon = "force"
    /\ streaming' = [streaming EXCEPT !.forced = TRUE, !.alive = FALSE]
    /\ UNCHANGED <<activityVars, printing, logging, worker, writer>>

\* module.main() returns or raises; line 71
StreamMainFinish(how) ==
    /\ streaming.alive
    /\ streaming.main = "running"
    /\ streaming' = [streaming EXCEPT
         !.main = "finally", !.ended = how, !.shutdown_flag = TRUE]
    /\ UNCHANGED <<activityVars, printing, logging, worker, writer>>

\* line 72
StreamMainDone ==
    /\ streaming.alive
    /\ streaming.main = "finally"
    /\ streaming' = [streaming EXCEPT !.main = "done", !.process_done = TRUE]
    /\ UNCHANGED <<activityVars, printing, logging, worker, writer>>

\* main has returned: the interpreter exits and takes the daemon thread along
StreamMainExit ==
    /\ streaming.alive
    /\ streaming.main = "done"
    /\ streaming' = [streaming EXCEPT !.main = "exited", !.alive = FALSE]
    /\ UNCHANGED <<activityVars, printing, logging, worker, writer>>

NextStreaming ==
    \/ StreamParentExits
    \/ StreamMonTest
    \/ StreamMonWake
    \/ StreamMonRequest
    \/ \E handled \in BOOLEAN : StreamMonSignal(handled)
    \/ StreamMonPoll
    \/ StreamMonPollSleep
    \/ StreamMonForce
    \/ \E how \in {"returned", "raised"} : StreamMainFinish(how)
    \/ StreamMainDone
    \/ StreamMainExit

SpecStreaming == InitLibrary /\ [][NextStreaming]_vars

\* ------------------------------------------------------------------ C38
\* what the monitor does and when, common to the claim and its amendment:
\* it requests shutdown only after the parent has changed; from then on the
\* flag is set and the signal is sent once and never again; the exit is
\* forced only after six polls that found process_done unset; once main has
\* set the shutdown flag the monitor starts no further round of its loop.
MonitorDiscipline ==
    /\ streaming'.requested => streaming'.parent = "changed"
    /\ streaming'.sigterms <= 1
    /\ streaming'.mon \in {"poll", "pollsleep", "force"} =>
          (streaming'.sigterms = 1 /\ streaming'.shutdown_flag)
    /\ streaming'.sigterms = 1 => streaming'.requested
    /\ streaming'.forced =>
          (streaming'.polls = GracePolls /\ streaming'.sigterms = 1)
    /\ streaming.process_done => streaming'.polls = streaming.polls
    /\ (streaming.shutdown_flag /\ streaming.mon = "test")
          => streaming'.mon # "sleep"

\* C38 as stated: the discipline above, and once main has finished and set
\* both flags no forced exit happens.
C38_Original ==
    [][/\ MonitorDiscipline
       /\ streaming.process_done => streaming'.forced = streaming.forced]_vars

\* C38 amended: the discipline above, and a forced exit after main has
\* finished happens only when main finished after the sixth poll.
C38_Amended ==
    [][/\ MonitorDiscipline
       /\ (streaming.process_done /\ streaming.polls < GracePolls)
            => ~streaming'.forced]_vars

\* the monitor saw process_done at its fourth poll and returned
C38_Witness ==
    /\ streaming.mon = "returned"
    /\ streaming.sigterms = 1
    /\ streaming.polls = 3
    /\ streaming.process_done
    /\ streaming.alive

\* --------------------------------------------------------- worker-main.py
\*
\* worker.main    main thread: starting (before line 19), running (inside
\*                asyncio.run), done (line 56 done), exited
\* worker.ended   how asyncio.run ended: no, returned, KeyboardInterrupt,
\*                raised
\* worker.mon     monitor thread: test (line 24), sleep (line 25), changed
\*                (line 27 saw another parent), grace (line 44), force
\*                (line 47), returned
\* worker.parent  whether os.getppid() still gives the PID read at line 19
\* worker.orphaned the parent went away before line 19 read its PID
\* worker.logged  which of the three messages of lines 31-39 was logged
\* requested is history: the monitor has set shutdown_event.  Nothing in
\* start_worker is given the event, so main does not react to it.

\* the parent process goes away and the worker is adopted; if that happens
\* before line 19, the PID read there is the adopter's and never changes
WorkerParentExits ==
    /\ worker.parent = "same"
    /\ ~worker.orphaned
    /\ worker' = IF worker.main = "starting"
                 THEN [worker EXCEPT !.orphaned = TRUE]
                 ELSE [worker EXCEPT !.parent = "changed"]
    /\ UNCHANGED <<activityVars, printing, logging, streaming, writer>>

\* lines 12-49: the arguments are read, the parent PID is read, the monitor
\* thread is started
WorkerStart ==
    /\ worker.alive
    /\ worker.main = "starting"
    /\ worker' = [worker EXCEPT !.main = "running", !.mon = "test"]
    /\ UNCHANGED <<activityVars, printing, logging, streaming, writer>>

\* line 24
WorkerMonTest ==
    /\ worker.alive
    /\ worker.mon = "test"
    /\ worker' = [worker EXCEPT
         !.mon = IF worker.shutdown_event THEN "returned" ELSE "sleep"]
    /\ UNCHANGED <<activityVars, printing, logging, streaming, writer>>

\* lines 25-28
WorkerMonWake ==
    /\ worker.alive
    /\ worker.mon = "sleep"
    /\ worker' = [worker EXCEPT
         !.mon = IF worker.parent = "same" THEN "test" ELSE "changed"]
    /\ UNCHANGED <<activityVars, printing, logging, streaming, writer>>

\* lines 31-41: the probe of the old parent decides the message only
WorkerMonRequest(probe) ==
    /\ worker.alive
    /\ worker.mon = "changed"
    /\ worker' = [worker EXCEPT
         !.logged = probe, !.shutdown_event = TRUE, !.requested = TRUE,
         !.mon = "grace"]
    /\ UNCHANGED <<activityVars, printing, logging, streaming, writer>>

\* mutant: after the delay the monitor returns when the event is set
WorkerMonGrace_ChecksEvent ==
    /\ worker.alive
    /\ worker.mon = "grace"
    /\ worker' = [worker EXCEPT
         !.mon = IF worker.shutdown_event THEN "returned" ELSE "force"]
    /\ UNCHANGED <<activityVars, printing, logging, streaming, writer>>

\* line 44: time.sleep(2)
WorkerMonGrace ==
    /\ worker.alive
    /\ worker.mon = "grace"
    /\ worker' = [worker EXCEPT !.mon = "force"]
    /\ UNCHANGED <<activityVars, printing, logging, streaming, writer>>

\* line 47: os._exit(0)
WorkerMonForce ==
    /\ worker.alive
    /\ worker.mon = "force"
    /\ worker' = [worker EXCEPT !.forced = TRUE, !.alive = FALSE]
    /\ UNCHANGED <<activityVars, printing, logging, streaming, writer>>

\* asyncio.run returns, is interrupted or raises; line 56
WorkerMainFinish(how) ==
    /\ worker.alive
    /\ worker.main = "running"
    /\ worker' = [worker EXCEPT
         !.main = "done", !.ended = how, !.shutdown_event = TRUE]
    /\ UNCHANGED <<activityVars, printing, logging, streaming, writer>>

\* main has returned: the interpreter exits and takes the daemon thread along
WorkerMainExit ==
    /\ worker.alive
    /\ worker.main = "done"
    /\ worker' = [worker EXCEPT !.main = "exited", !.alive = FALSE]
    /\ UNCHANGED <<activityVars, printing, logging, streaming, writer>>

\* the steps of the monitor thread
WorkerMonStep ==
    \/ WorkerMonTest
    \/ WorkerMonWake
    \/ \E probe \in {"ProcessLookupError", "PermissionError", "exists"} :
          WorkerMonRequest(probe)
    \/ WorkerMonGrace
    \/ WorkerMonForce

NextWorker ==
    \/ WorkerParentExits
    \/ WorkerStart
    \/ WorkerMonStep
    \/ \E how \in {"returned", "KeyboardInterrupt", "raised"} :
          WorkerMainFinish(how)
    \/ WorkerMainExit

\* the monitor is a thread of its own: its sleeps end and it is scheduled
\* whatever the main thread does; nothing is assumed about the main thread
SpecWorker ==
    /\ InitLibrary
    /\ [][NextWorker]_vars
    /\ WF_vars(WorkerMonStep)

\* ------------------------------------------------------------------ C39
\* C39: once the monitor has observed that the parent PID changed, the
\* shutdown event gets set and the process exits, by the forced exit if the
\* main thread never returns; while the parent PID is unchanged the monitor
\* neither sets the event nor forces the exit; once the main thread has
\* finished and set the event, the monitor starts no further round of its
\* loop.
C39_WorkerExitsAfterParent ==
    /\ [][/\ worker'.requested => worker'.parent = "changed"
          /\ worker'.forced => (worker'.requested /\ worker'.shutdown_event)
          /\ worker'.mon \in {"grace", "force"} => worker'.shutdown_event
          /\ (worker.shutdown_event /\ worker.mon = "test")
                => worker'.mon # "sleep"]_vars
    /\ (worker.mon = "changed") ~> ~worker.alive
    /\ [](worker.mon = "changed" /\ worker.main = "running"
            => <>(worker.forced \/ worker.main # "running"))

\* the exit was forced while the main thread had not returned
C39_Witness ==
    /\ worker.forced
    /\ worker.main = "running"
    /\ worker.logged = "ProcessLookupError"
    /\ ~worker.alive

\* ---------------------------------------------- MooseBatchedModelWriter
\*
\* writer.keys     the keys of batched_records, in insertion order
\* writer.records  the list kept under each key (a record is named by the
\*                 number of the add call that brought it)
\* writer.writes   the calls of moose_client.write that returned
\* writer.history  per model name, every record ever added, in order
\* writer.last     the last call: init, add, flushed (flush returned),
\*                 raised (a write raised and flush passed the error on)

\* lines 9-12
WriterAdd(model_name) ==
    /\ writer.adds < MaxAdds
    /\ writer' = [writer EXCEPT
         !.keys = IF \E i \in DOMAIN @ : @[i] = model_name
                  THEN @ ELSE Append(@, model_name),
         !.records[model_name] = Append(@, writer.adds + 1),
         !.history[model_name] = Append(@, writer.adds + 1),
         !.adds = @ + 1,
         !.last = "add"]
    /\ UNCHANGED <<activityVars, printing, logging, streaming, worker>>

\* the write calls flush makes for the first n keys (lines 16-18)
RECURSIVE WritesFor(_, _, _)
WritesFor(keys, records, n) ==
    IF n = 0 THEN << >>
    ELSE LET before == WritesFor(keys, records, n - 1)
         IN  IF records[keys[n]] # << >>
             THEN Append(before, [model_name |-> keys[n],
                                  records |-> records[keys[n]]])
             ELSE before

\* mutant: flush leaves the batch in place after writing it
WriterFlush_KeepsBuffer(failAt) ==
    /\ writer.flushes < MaxFlushes
    /\ failAt \in 0..Len(writer.keys)
    /\ IF failAt = 0
       THEN writer' = [writer EXCEPT
              !.writes = @ \o WritesFor(writer.keys, writer.records,
                                        Len(writer.keys)),
              !.flushes = @ + 1,
              !.last = "flushed"]
       ELSE writer' = [writer EXCEPT
              !.writes = @ \o WritesFor(writer.keys, writer.records,
                                        failAt - 1),
              !.flushes = @ + 1,
              !.failures = @ + 1,
              !.last = "raised"]
    /\ UNCHANGED <<activityVars, printing, logging, streaming, worker>>

\* lines 14-19.  failAt = 0: every write returns and the batch is replaced
\* by an empty one; failAt = k: the write for the k-th key raises, the
\* writes before it have been made, line 19 is not reached
WriterFlush(failAt) ==
    /\ writer.flushes < MaxFlushes
    /\ failAt \in 0..Len(writer.keys)
    /\ IF failAt = 0
       THEN writer' = [writer EXCEPT
              !.writes = @ \o WritesFor(writer.keys, writer.records,
                                        Len(writer.keys)),
              !.keys = << >>,
              !.records = [n \in ModelNames |-> << >>],
              !.flushes = @ + 1,
              !.last = "flushed"]
       ELSE writer' = [writer EXCEPT
              !.writes = @ \o WritesFor(writer.keys, writer.records,
                                        failAt - 1),
              !.flushes = @ + 1,
              !.failures = @ + 1,
              !.last = "raised"]
    /\ UNCHANGED <<activityVars, printing, logging, streaming, worker>>

NextWriter ==
    \/ \E model_name \in ModelNames : WriterAdd(model_name)
    \/ \E failAt \in 0..MaxAdds : WriterFlush(failAt)

SpecWriter == InitLibrary /\ [][NextWriter]_vars

\* ------------------------------------------------------------------ C40
\* the records written for a model name, over the first n write calls
RECURSIVE WrittenFor(_, _, _)
WrittenFor(writes, model_name, n) ==
    IF n = 0 THEN << >>
    ELSE IF writes[n].model_name = model_name
         THEN WrittenFor(writes, model_name, n - 1) \o writes[n].records
         ELSE WrittenFor(writes, model_name, n - 1)

Written(w, model_name) == WrittenFor(w.writes, model_name, Len(w.writes))

Elements(s) == {s[i] : i \in DOMAIN s}

\* C40: while every write succeeds, what has been written for a model name
\* followed by what is still buffered for it is exactly what was added for
\* it, in the order added, so each record is written once and under its own
\* model name; write never receives an empty list; when flush returns the
\* buffer is empty; when a write raises, flush leaves the buffer as it was,
\* so every record added is still buffered or has been written.
C40_BatchedWriter ==
    [][/\ \A i \in DOMAIN writer'.writes : writer'.writes[i].records # << >>
       /\ writer'.failures = 0 =>
            \A n \in ModelNames :
                Written(writer', n) \o writer'.records[n] = writer'.history[n]
       /\ writer'.last = "flushed" =>
            /\ writer'.keys = << >>
            /\ \A n \in ModelNames : writer'.records[n] = << >>
       /\ writer'.failures > writer.failures =>
            /\ writer'.keys = writer.keys
            /\ writer'.records = writer.records
       /\ \A n \in ModelNames :
            Elements(writer'.history[n]) \subseteq
                Elements(Written(writer', n)) \cup Elements(writer'.records[n])
      ]_vars

\* two flushes that succeeded, records of both models, A's in two batches
C40_Witness ==
    /\ writer.failures = 0
    /\ writer.last = "flushed"
    /\ writer.flushes = 2
    /\ Len(writer.writes) = 3
    /\ Written(writer, "A") = <<1, 3>>
    /\ Written(writer, "B") = <<2>>

====
